---------------------------- MODULE Spec2Model ----------------------------
(***************************************************************************)
(* A model of the combinatorial-pooling core:                              *)
(*   - graph_clique_find.py  : Node, Graph and Graph.reduce_to_clique      *)
(*   - binary_code_utilities.py : Binary_codeword and Binary_code          *)
(* Each part has its own specification; the variables of the other part    *)
(* stay as they were initialised.                                          *)
(***************************************************************************)
EXTENDS Integers, Sequences, FiniteSets, TLC

(***************************************************************************)
(* Bounds of the model.                                                    *)
(***************************************************************************)
\* number of Node objects of the graphs the clique specification starts from
NumNodes == 4
\* number of Node objects of the graphs the free-call specification and the
\* specification of running calls start from
NumCallNodes == 3
\* longest codewords of the codes the derived operations are applied to
MaxLength == 3
\* longest codewords of the codes that add/remove calls are made on
MaxAddLength == 2
\* most rows of a generator matrix
MaxRows == 2
\* longest codewords of the codes that codewords are chosen from
MaxSampleLength == 2
\* longest codewords and most codewords of the sets that are expanded by mutations
MaxExpandLength == 3
MaxExpandSize == 2
\* longest codewords and most codewords of the codes checked for clonality
\* conflicts, and the most changes allowed of one kind
MaxClonalityLength == 3
MaxClonalitySize == 4
MaxChanges == 1
\* most bits of the codewords that are made, compared and measured one by one
MaxWordLength == 3
\* longest codewords of the codes that are analysed twice
MaxTwiceLength == 2

VARIABLES
  universe,       \* the Node objects made by Graph.__init__ (their values)
  nodes,          \* Graph.nodes
  size,           \* Graph.size
  neighbors,      \* Node.neighbors, per Node object
  degree,         \* Node.degree, per Node object
  stack,          \* the frames of the running reduce_to_clique /
                  \* remove_nodes_by_degree calls, innermost last
  required_nodes, \* the set object shared by all levels of one reduce_to_clique
  last,           \* the last top-level call: its name, arguments and outcome
  pre,            \* the graph as it was when the last top-level call was made
  length,         \* Binary_code.length
  codewords,      \* Binary_code.codewords
  before,         \* the code as it was when the last call on it was made
  call,           \* the last call on the code: name, arguments, outcome
  out             \* what the last call returned, when it returns a code or a set

gvars == <<universe, nodes, size, neighbors, degree, stack, required_nodes, last, pre>>

cvars == <<length, codewords, before, call, out>>

vars == <<gvars, cvars>>

(***************************************************************************)
(* Node and Graph as values: a graph value g carries Graph.nodes,          *)
(* Graph.size and the neighbors/degree fields of every Node object.        *)
(***************************************************************************)
G == [nodes |-> nodes, size |-> size, neighbors |-> neighbors, degree |-> degree]

\* Node.add_neighbor, after its membership test passed
add_neighbor(g, self, node) ==
  [g EXCEPT !.degree[self] = @ + 1, !.neighbors[self] = @ \cup {node}]

\* remove_neighbor that takes the node out of the set and leaves the counter
remove_neighbor_StaleDegree(g, self, node) ==
  [g EXCEPT !.neighbors[self] = @ \ {node}]

\* Node.remove_neighbor, after its membership test passed
remove_neighbor(g, self, node) ==
  [g EXCEPT !.degree[self] = @ - 1, !.neighbors[self] = @ \ {node}]

\* Node.clear_neighbors
clear_neighbors(g, self) ==
  [g EXCEPT !.neighbors[self] = {}, !.degree[self] = 0]

\* node.add_neighbor(node1) for every node of the set S, one after the other
RECURSIVE add_to_all(_, _, _)
add_to_all(g, S, node1) ==
  IF S = {} THEN g
  ELSE LET node2 == CHOOSE x \in S : TRUE
       IN  add_to_all(add_neighbor(g, node2, node1), S \ {node2}, node1)

\* node.remove_neighbor(node1) for every node of the set S, one after the other
RECURSIVE remove_from_all(_, _, _)
remove_from_all(g, S, node1) ==
  IF S = {} THEN g
  ELSE LET node2 == CHOOSE x \in S : TRUE
       IN  remove_from_all(remove_neighbor(g, node2, node1), S \ {node2}, node1)

\* Graph.__init__ followed by Graph.build_edges_by_function: edge_function is
\* given as the set of unordered value pairs it answers True for.
build_edges_by_function(inputs, edge_function) ==
  [nodes     |-> inputs,
   size      |-> Cardinality(inputs),
   neighbors |-> [n \in inputs |-> {m \in inputs : m # n /\ {n, m} \in edge_function}],
   degree    |-> [n \in inputs |->
                   Cardinality({m \in inputs : m # n /\ {n, m} \in edge_function})]]

\* Graph.clear
clear(g) == [g EXCEPT !.nodes = {}, !.size = 0]

\* remove_node that clears the neighbour record whatever keep_neighbor_record is
remove_node_AlwaysClear(g, node1, keep_neighbor_record) ==
  IF node1 \notin g.nodes THEN {[g |-> g, err |-> TRUE]}
  ELSE LET raising == {node2 \in g.neighbors[node1] : node1 \notin g.neighbors[node2]}
           passing == g.neighbors[node1] \ raising
       IN  IF raising = {}
           THEN LET g1 == remove_from_all(g, passing, node1)
                    g2 == clear_neighbors(g1, node1)
                IN  {[g |-> [g2 EXCEPT !.nodes = @ \ {node1}, !.size = @ - 1],
                      err |-> FALSE]}
           ELSE {[g |-> remove_from_all(g, done, node1), err |-> TRUE] :
                    done \in SUBSET passing}

\* remove_node that leaves node1 in the node set and the size as it was
remove_node_StillInGraph(g, node1, keep_neighbor_record) ==
  IF node1 \notin g.nodes THEN {[g |-> g, err |-> TRUE]}
  ELSE LET raising == {node2 \in g.neighbors[node1] : node1 \notin g.neighbors[node2]}
           passing == g.neighbors[node1] \ raising
       IN  IF raising = {}
           THEN LET g1 == remove_from_all(g, passing, node1)
                    g2 == IF keep_neighbor_record THEN g1 ELSE clear_neighbors(g1, node1)
                IN  {[g |-> g2, err |-> FALSE]}
           ELSE {[g |-> remove_from_all(g, done, node1), err |-> TRUE] :
                    done \in SUBSET passing}

\* Graph.remove_node: the outcomes over every order in which node1.neighbors is
\* iterated.  err is TRUE when GraphNodeError is raised; the neighbours visited
\* before the raise have already dropped node1.
remove_node(g, node1, keep_neighbor_record) ==
  IF node1 \notin g.nodes THEN {[g |-> g, err |-> TRUE]}
  ELSE LET raising == {node2 \in g.neighbors[node1] : node1 \notin g.neighbors[node2]}
           passing == g.neighbors[node1] \ raising
       IN  IF raising = {}
           THEN LET g1 == remove_from_all(g, passing, node1)
                    g2 == IF keep_neighbor_record THEN g1 ELSE clear_neighbors(g1, node1)
                IN  {[g |-> [g2 EXCEPT !.nodes = @ \ {node1}, !.size = @ - 1],
                      err |-> FALSE]}
           ELSE {[g |-> remove_from_all(g, done, node1), err |-> TRUE] :
                    done \in SUBSET passing}

\* add_node_with_neighbors that puts the node back without telling its
\* neighbours
add_node_with_neighbors_OneWay(g, node1) ==
  IF node1 \in g.nodes THEN {[g |-> g, err |-> TRUE]}
  ELSE {[g |-> [g EXCEPT !.nodes = @ \cup {node1}, !.size = @ + 1], err |-> FALSE]}

\* Graph.add_node_with_neighbors: the outcomes over every order in which
\* node1.neighbors is iterated.
add_node_with_neighbors(g, node1) ==
  IF node1 \in g.nodes THEN {[g |-> g, err |-> TRUE]}
  ELSE LET raising == {node2 \in g.neighbors[node1] : node1 \in g.neighbors[node2]}
           passing == g.neighbors[node1] \ raising
       IN  IF raising = {}
           THEN LET g1 == add_to_all(g, passing, node1)
                IN  {[g |-> [g1 EXCEPT !.nodes = @ \cup {node1}, !.size = @ + 1],
                      err |-> FALSE]}
           ELSE {[g |-> add_to_all(g, done, node1), err |-> TRUE] :
                    done \in SUBSET passing}

\* is_clique that answers True at the first node of full degree
is_clique_FirstNode(g) ==
  LET max_degree == g.size - 1
  IN  \E node \in g.nodes : g.degree[node] = max_degree

\* is_clique that answers False for a graph of no nodes
is_clique_NotEmpty(g) ==
  LET max_degree == g.size - 1
  IN  g.nodes # {} /\ \A node \in g.nodes : g.degree[node] = max_degree

\* Graph.is_clique
is_clique(g) ==
  LET max_degree == g.size - 1
  IN  \A node \in g.nodes : g.degree[node] = max_degree


\* the size test with <= for <
too_small_OffByOne(g, min_size) == g.size <= min_size

\* reduce_to_clique: "if self.size<min_size"
too_small(g, min_size) == g.size < min_size

(***************************************************************************)
(* The calls on a Graph.  remove_node and add_node_with_neighbors are one  *)
(* step each; remove_nodes_by_degree and reduce_to_clique run as frames on *)
(* the stack, one step per node visited, so that every iteration order of  *)
(* the node sets is a behaviour.                                           *)
(***************************************************************************)
SetG(g) ==
  /\ nodes' = g.nodes
  /\ size' = g.size
  /\ neighbors' = g.neighbors
  /\ degree' = g.degree

Idle == stack = <<>>

Top == stack[Len(stack)]

SetTop(f) == [stack EXCEPT ![Len(stack)] = f]

Pop == SubSeq(stack, 1, Len(stack) - 1)

\* the graph of no Node objects
NoGraph == build_edges_by_function({}, {})

\* A frame holds the locals of a call; detached_from is the graph as it was
\* when the call last detached a node (a record of the run, not a local).
Frame(fn, min_size, min_degree, if_repeat, curr_nodes) ==
  [fn |-> fn, pc |-> "remove_nodes_by_degree", min_size |-> min_size,
   min_degree |-> min_degree, if_repeat |-> if_repeat, curr_nodes |-> curr_nodes,
   N_removed |-> 0, unknown_nodes |-> {}, node |-> 0,   \* node 0: no node yet
   detached_from |-> NoGraph]

Call(op, node, keep, min, status) ==
  [op |-> op, node |-> node, keep_neighbor_record |-> keep, min |-> min, status |-> status]

\* a GraphNodeError leaves every running call
Raise(g) ==
  /\ SetG(g)
  /\ stack' = <<>>
  /\ last' = [last EXCEPT !.status = "GraphNodeError"]
  /\ UNCHANGED <<universe, required_nodes, pre>>
  /\ UNCHANGED cvars

\* the innermost call returns
Return(g) ==
  /\ SetG(g)
  /\ stack' = Pop
  /\ last' = IF Len(stack) = 1 THEN [last EXCEPT !.status = "returned"] ELSE last
  /\ UNCHANGED <<universe, required_nodes, pre>>
  /\ UNCHANGED cvars

\* Graph.remove_node called on the graph
RemoveNode ==
  /\ Idle
  /\ \E node1 \in universe, keep_neighbor_record \in BOOLEAN :
       \E o \in remove_node(G, node1, keep_neighbor_record) :
         /\ SetG(o.g)
         /\ last' = Call("remove_node", node1, keep_neighbor_record, 0,
                         IF o.err THEN "GraphNodeError" ELSE "returned")
  /\ pre' = G
  /\ UNCHANGED cvars
  /\ UNCHANGED <<universe, stack, required_nodes>>

\* Graph.add_node_with_neighbors called on the graph
AddNodeWithNeighbors ==
  /\ Idle
  /\ \E node1 \in universe :
       \E o \in add_node_with_neighbors(G, node1) :
         /\ SetG(o.g)
         /\ last' = Call("add_node_with_neighbors", node1, FALSE, 0,
                         IF o.err THEN "GraphNodeError" ELSE "returned")
  /\ pre' = G
  /\ UNCHANGED cvars
  /\ UNCHANGED <<universe, stack, required_nodes>>

\* Graph.remove_nodes_by_degree called on the graph
RemoveNodesByDegree ==
  /\ Idle
  /\ \E min_degree \in 0..Cardinality(universe), if_repeat \in BOOLEAN :
       /\ stack' = <<Frame("remove_nodes_by_degree", 0, min_degree, if_repeat, nodes)>>
       /\ last' = Call("remove_nodes_by_degree", 0, if_repeat, min_degree, "running")
  /\ pre' = G
  /\ UNCHANGED cvars
  /\ UNCHANGED <<universe, nodes, size, neighbors, degree, required_nodes>>

\* Graph.reduce_to_clique(min_size) called on the graph: required_nodes is a new set
ReduceToClique ==
  /\ Idle
  /\ \E min_size \in 0..(Cardinality(universe) + 1) :
       /\ stack' = <<Frame("reduce_to_clique", min_size, min_size - 1, TRUE, nodes)>>
       /\ last' = Call("reduce_to_clique", 0, FALSE, min_size, "running")
  /\ required_nodes' = {}
  /\ pre' = G
  /\ UNCHANGED cvars
  /\ UNCHANGED <<universe, nodes, size, neighbors, degree>>

\* one pass over the nodes and no more, whatever was removed
another_pass_Never(if_repeat, N_removed) == FALSE

\* remove_nodes_by_degree: "if if_repeat and N_removed"
another_pass(if_repeat, N_removed) == if_repeat /\ N_removed # 0

\* remove_nodes_by_degree: one turn of "for node in curr_nodes"
VisitNode ==
  /\ ~Idle
  /\ Top.pc = "remove_nodes_by_degree"
  /\ \E node \in Top.curr_nodes :
       IF degree[node] < Top.min_degree
       THEN \E o \in remove_node(G, node, FALSE) :
              IF o.err THEN Raise(o.g)
              ELSE /\ SetG(o.g)
                   /\ stack' = SetTop([Top EXCEPT !.curr_nodes = @ \ {node},
                                                  !.N_removed = @ + 1])
                   /\ UNCHANGED <<universe, required_nodes, last, pre, cvars>>
       ELSE /\ stack' = SetTop([Top EXCEPT !.curr_nodes = @ \ {node}])
            /\ UNCHANGED <<universe, nodes, size, neighbors, degree, required_nodes,
                           last, pre, cvars>>

\* remove_nodes_by_degree: the loop is over; repeat on the nodes now in the graph,
\* or go back to the caller
EndOfPass ==
  /\ ~Idle
  /\ Top.pc = "remove_nodes_by_degree"
  /\ Top.curr_nodes = {}
  /\ IF another_pass(Top.if_repeat, Top.N_removed)
     THEN /\ stack' = SetTop([Top EXCEPT !.curr_nodes = nodes, !.N_removed = 0])
          /\ UNCHANGED <<universe, nodes, size, neighbors, degree, required_nodes,
                         last, pre, cvars>>
     ELSE IF Top.fn = "remove_nodes_by_degree"
          THEN Return(G)
          ELSE /\ stack' = SetTop([Top EXCEPT !.pc = "check"])
               /\ UNCHANGED <<universe, nodes, size, neighbors, degree, required_nodes,
                              last, pre, cvars>>

\* reduce_to_clique after the removal by degree: the size test, the clique test
\* and the split of the nodes into required and unknown ones
CheckAndSplit ==
  /\ ~Idle
  /\ Top.pc = "check"
  /\ IF too_small(G, Top.min_size)
     THEN Return(clear(G))
     ELSE IF is_clique(G)
          THEN Return(G)
          ELSE LET max_degree == size - 1
                   unknown_nodes == nodes \ required_nodes
                   required == required_nodes \cup
                                 {node \in unknown_nodes : degree[node] = max_degree}
               IN  /\ required_nodes' = required
                   /\ stack' = SetTop([Top EXCEPT !.pc = "for",
                                                  !.unknown_nodes = nodes \ required])
                   /\ UNCHANGED <<universe, nodes, size, neighbors, degree, last, pre, cvars>>

\* reduce_to_clique: one turn of "for node in unknown_nodes": detach the node,
\* keeping its neighbour record, and enter the recursive call
TryWithoutNode ==
  /\ ~Idle
  /\ Top.pc = "for"
  /\ IF Top.unknown_nodes = {}
     THEN Return(G)
     ELSE \E node \in Top.unknown_nodes :
            \E o \in remove_node(G, node, TRUE) :
              IF o.err THEN Raise(o.g)
              ELSE /\ SetG(o.g)
                   /\ stack' = Append(SetTop([Top EXCEPT !.pc = "after", !.node = node,
                                                         !.unknown_nodes = @ \ {node},
                                                         !.detached_from = G]),
                                      Frame("reduce_to_clique", Top.min_size,
                                            Top.min_size - 1, TRUE, o.g.nodes))
                   /\ UNCHANGED <<universe, required_nodes, last, pre, cvars>>

\* reduce_to_clique: the recursive call is back: done if the graph is a clique,
\* otherwise put the node back and go on with the next unknown node
AfterRecursion ==
  /\ ~Idle
  /\ Top.pc = "after"
  /\ IF is_clique(G)
     THEN Return(G)
     ELSE \E o \in add_node_with_neighbors(G, Top.node) :
            IF o.err THEN Raise(o.g)
            ELSE /\ SetG(o.g)
                 /\ stack' = SetTop([Top EXCEPT !.pc = "for", !.node = 0])
                 /\ UNCHANGED <<universe, required_nodes, last, pre, cvars>>

(***************************************************************************)
(* Binary_codeword.  A codeword is the sequence of its bits, first bit     *)
(* first: what string() and list() give.  A constructor argument is a      *)
(* bit-string, an int or a list of 0/1 values.                             *)
(***************************************************************************)
Bit == {0, 1}

Words(L) == [1..L -> Bit]

Str(bits) == [type |-> "str", bits |-> bits, n |-> 0]
Int_(n) == [type |-> "int", bits |-> <<>>, n |-> n]
List(bits) == [type |-> "list", bits |-> bits, n |-> 0]

RECURSIVE Pow2(_)
Pow2(k) == IF k = 0 THEN 1 ELSE 2 * Pow2(k - 1)

\* bitstring.BitArray(uint=val, length=length): the length bits of val, high bit first
UintBits(val, len) == [i \in 1..len |-> (val \div Pow2(len - i)) % 2]

\* the number of binary digits of bin(val)
RECURSIVE BinDigits(_)
BinDigits(val) == IF val < 2 THEN 1 ELSE 1 + BinDigits(val \div 2)

\* Binary_codeword.__init__(val, length, check_length); length -1 stands for None.
\* Gives the bits of the new codeword, or the exception raised.
Binary_codeword(val, len, check_length) ==
  LET made ==
        IF val.type = "int"
        THEN IF len # -1
             THEN IF len = 0 \/ val.n >= Pow2(len)
                  THEN [error |-> "CreationError", codeword |-> <<>>]
                  ELSE [error |-> "", codeword |-> UintBits(val.n, len)]
             ELSE [error |-> "", codeword |-> UintBits(val.n, BinDigits(val.n))]
        ELSE [error |-> "", codeword |-> val.bits]
  IN  IF made.error # "" THEN made
      ELSE IF len # -1 /\ len # Len(made.codeword)
           THEN IF check_length
                THEN [error |-> "BinaryCodeError", codeword |-> <<>>]
                ELSE IF len - Len(made.codeword) < 0
                     THEN [error |-> "BinaryCodeError", codeword |-> <<>>]
                     ELSE [error |-> "",
                           codeword |-> [i \in 1..(len - Len(made.codeword)) |-> 0]
                                          \o made.codeword]
           ELSE made

\* Binary_codeword.weight
weight(codeword) == Cardinality({i \in 1..Len(codeword) : codeword[i] = 1})

\* a bit set where either operand has it set
xor_Or(val1, val2) ==
  IF Len(val1) # Len(val2) THEN [error |-> "ValueError", codeword |-> <<>>]
  ELSE [error |-> "",
        codeword |-> [i \in 1..Len(val1) |-> IF val1[i] + val2[i] > 0 THEN 1 ELSE 0]]

\* Binary_codeword.__xor__ (bitstring refuses operands of different lengths)
xor(val1, val2) ==
  IF Len(val1) # Len(val2) THEN [error |-> "ValueError", codeword |-> <<>>]
  ELSE [error |-> "", codeword |-> [i \in 1..Len(val1) |-> (val1[i] + val2[i]) % 2]]

\* Hamming_distance
Hamming_distance(val1, val2) ==
  LET bitwise_xor == xor(val1, val2)
  IN  IF bitwise_xor.error # "" THEN [error |-> bitwise_xor.error, value |-> 0]
      ELSE [error |-> "", value |-> weight(bitwise_xor.codeword)]

\* Binary_codeword.__and__ and __or__ (of operands of one length, as __xor__)
and(val1, val2) ==
  IF Len(val1) # Len(val2) THEN [error |-> "ValueError", codeword |-> <<>>]
  ELSE [error |-> "", codeword |-> [i \in 1..Len(val1) |-> val1[i] * val2[i]]]

or(val1, val2) ==
  IF Len(val1) # Len(val2) THEN [error |-> "ValueError", codeword |-> <<>>]
  ELSE [error |-> "",
        codeword |-> [i \in 1..Len(val1) |-> IF val1[i] + val2[i] > 0 THEN 1 ELSE 0]]

\* the codeword itself in the place of its inverse
invert_codeword_Keep(codeword) == codeword

\* Binary_codeword.__invert__
invert_codeword(codeword) == [i \in 1..Len(codeword) |-> 1 - codeword[i]]

\* bit_change_count: (count of 0 in val1 and 1 in val2, count of the reverse)
bit_change_count(val1, val2) ==
  LET count_0_to_1 == and(invert_codeword(val1), val2)
      count_1_to_0 == and(val1, invert_codeword(val2))
  IN  IF count_0_to_1.error # "" THEN [error |-> count_0_to_1.error, value |-> <<0, 0>>]
      ELSE [error |-> "",
            value |-> <<weight(count_0_to_1.codeword), weight(count_1_to_0.codeword)>>]

\* a Binary_codeword instance as a constructor argument
Codeword_(bits) == [type |-> "Binary_codeword", bits |-> bits, n |-> 0]

\* the characters a str argument is written with
Char == {"0", "1", " "}

\* the str arguments of up to len characters, with and without a leading "0b"
Texts(len) ==
  {prefix \o body : prefix \in {<<>>, <<"0", "b">>},
                    body \in UNION {[1..l -> Char] : l \in 0..len}}

\* bitstring.BitArray(bin=val), val a str: whitespace and the leading "0b"
\* dropped, one bit per digit that is left
RECURSIVE BitArray_bin(_)
BitArray_bin(val) ==
  IF val = <<>> THEN <<>>
  ELSE IF Head(val) = " " THEN BitArray_bin(Tail(val))
  ELSE IF Len(val) >= 2 /\ Head(val) = "0" /\ val[2] = "b" THEN BitArray_bin(Tail(Tail(val)))
  ELSE <<(IF Head(val) = "1" THEN 1 ELSE 0)>> \o BitArray_bin(Tail(val))

\* BitArray.bin: "0b" and one digit per bit
bin(codeword) ==
  <<"0", "b">> \o [i \in 1..Len(codeword) |-> IF codeword[i] = 1 THEN "1" ELSE "0"]

\* Binary_codeword.string: self.codeword.bin[2:]
string(codeword) == SubSeq(bin(codeword), 3, Len(bin(codeword)))

\* the order of the characters "0" < "1"
ord(ch) == IF ch = "1" THEN 49 ELSE 48

\* the builtin cmp on two strings of digits: -1, 0 or 1, by the first
\* character that differs, a proper prefix coming first
RECURSIVE cmp(_, _)
cmp(x, y) ==
  IF x = <<>> /\ y = <<>> THEN 0
  ELSE IF x = <<>> THEN -1
  ELSE IF y = <<>> THEN 1
  ELSE IF ord(Head(x)) < ord(Head(y)) THEN -1
  ELSE IF ord(Head(x)) > ord(Head(y)) THEN 1
  ELSE cmp(Tail(x), Tail(y))

\* comparison by the number the bits write
codeword_cmp_ByNumber(self, other) ==
  LET RECURSIVE number(_)
      number(bits) == IF bits = <<>> THEN 0
                      ELSE 2 * number(SubSeq(bits, 1, Len(bits) - 1)) + bits[Len(bits)]
  IN  IF number(self) < number(other) THEN -1
      ELSE IF number(self) > number(other) THEN 1 ELSE 0

\* Binary_codeword.__cmp__
codeword_cmp(self, other) == cmp(string(self), string(other))

\* Binary_codeword.__hash__: the hash of the string, a value that the string
\* determines
codeword_hash(self) == <<"hash", string(self)>>

\* N_permitted_changes: an int n is <<n>>, a tuple (a, b) is <<a, b>>
IsInt(N_permitted_changes) == Len(N_permitted_changes) = 1

\* the values with exactly max_N_changes positions inverted
change_all_position_combinations_Exactly(val, max_N_changes, allowed_change_positions) ==
  {[pos \in 1..Len(val) |-> IF pos \in change_positions THEN 1 - val[pos] ELSE val[pos]] :
     change_positions \in {P \in SUBSET allowed_change_positions :
                             Cardinality(P) = max_N_changes}}

\* _change_all_position_combinations: val with the bits of every combination of
\* at most max_N_changes of the allowed positions inverted
change_all_position_combinations(val, max_N_changes, allowed_change_positions) ==
  {[pos \in 1..Len(val) |-> IF pos \in change_positions THEN 1 - val[pos] ELSE val[pos]] :
     change_positions \in {P \in SUBSET allowed_change_positions :
                             Cardinality(P) <= max_N_changes}}

\* expand_by_all_mutations
expand_by_all_mutations(codeword_set, N_permitted_changes) ==
  IF IsInt(N_permitted_changes)
  THEN UNION {change_all_position_combinations(codeword, N_permitted_changes[1],
                                               1..Len(codeword)) :
                codeword \in codeword_set}
  ELSE LET permitted_1_to_0_changes == N_permitted_changes[1]
           permitted_0_to_1_changes == N_permitted_changes[2]
           list_of_1_positions(codeword) == {x \in 1..Len(codeword) : codeword[x] = 1}
           list_of_0_positions(new_val) == {x \in 1..Len(new_val) : new_val[x] = 0}
           new_val_halfway_set(codeword) ==
             change_all_position_combinations(codeword, permitted_1_to_0_changes,
                                              list_of_1_positions(codeword))
       IN  UNION {UNION {change_all_position_combinations(new_val, permitted_0_to_1_changes,
                                                          list_of_0_positions(new_val)) :
                           new_val \in new_val_halfway_set(codeword)} :
                    codeword \in codeword_set}

\* general_utilities.invert_listdict_tolists: from key -> values to
\* value -> the keys it was listed under
invert_listdict_tolists(dict) ==
  [v \in UNION {dict[k] : k \in DOMAIN dict} |-> {k \in DOMAIN dict : v \in dict[k]}]

\* every base codeword filed under the expansion of the whole set
expand_by_all_mutations_dict_Whole(codeword_set, N_permitted_changes) ==
  invert_listdict_tolists(
    [cw \in codeword_set |-> expand_by_all_mutations(codeword_set, N_permitted_changes)])

\* expand_by_all_mutations_dict
expand_by_all_mutations_dict(codeword_set, N_permitted_changes) ==
  invert_listdict_tolists(
    [cw \in codeword_set |-> expand_by_all_mutations({cw}, N_permitted_changes)])

(***************************************************************************)
(* Binary_code.  A code value c carries Binary_code.length and             *)
(* Binary_code.codewords; a call gives the status ("returned" or the       *)
(* exception), the code after the call and the value returned.             *)
(***************************************************************************)
Code(len, cws) == [length |-> len, codewords |-> cws]

Outcome(status, c, ret) == [status |-> status, code |-> c, ret |-> ret]

\* add with no length given to Binary_codeword
add_AnyLength(c, val) ==
  LET w == Binary_codeword(val, -1, FALSE)
  IN  IF w.error # "" THEN Outcome(w.error, c, "None")
      ELSE Outcome("returned", Code(c.length, c.codewords \cup {w.codeword}), "None")

\* Binary_code.add
add(c, val) ==
  LET w == Binary_codeword(val, c.length, TRUE)
  IN  IF w.error # "" THEN Outcome(w.error, c, "None")
      ELSE Outcome("returned", Code(c.length, c.codewords \cup {w.codeword}), "None")

\* remove as set.discard would do it
remove_Discard(c, val) ==
  LET w == Binary_codeword(val, c.length, TRUE)
  IN  IF w.error # "" THEN Outcome(w.error, c, "None")
      ELSE Outcome("returned", Code(c.length, c.codewords \ {w.codeword}), "None")

\* Binary_code.remove
remove(c, val) ==
  LET w == Binary_codeword(val, c.length, TRUE)
  IN  IF w.error # "" THEN Outcome(w.error, c, "None")
      ELSE IF w.codeword \notin c.codewords
           THEN Outcome("BinaryCodeError", c, "None")
           ELSE Outcome("returned", Code(c.length, c.codewords \ {w.codeword}), "None")

\* remove_extreme_codeword that takes the all-zero codeword whatever the bit
remove_extreme_codeword_AllZero(c, bit) ==
  IF bit \notin {0, 1} THEN Outcome("BinaryCodeError", c, "None")
  ELSE LET w == Binary_codeword(Str([i \in 1..c.length |-> 0]), c.length, FALSE)
       IN  IF w.error # "" THEN Outcome(w.error, c, "None")
           ELSE IF w.codeword \in c.codewords
                THEN Outcome("returned", Code(c.length, c.codewords \ {w.codeword}), 1)
                ELSE Outcome("returned", c, 0)

\* Binary_code.remove_extreme_codeword
remove_extreme_codeword(c, bit) ==
  IF bit \notin {0, 1} THEN Outcome("BinaryCodeError", c, "None")
  ELSE LET w == Binary_codeword(Str([i \in 1..c.length |-> bit]), c.length, FALSE)
       IN  IF w.error # "" THEN Outcome(w.error, c, "None")
           ELSE IF w.codeword \in c.codewords
                THEN Outcome("returned", Code(c.length, c.codewords \ {w.codeword}), 1)
                ELSE Outcome("returned", c, 0)

\* Binary_code.size
size_of(c) == Cardinality(c.codewords)

\* Binary_code.find_bit_sum_counts: the (bit-sum, count) pairs, sorted
RECURSIVE bit_sum_counts_from(_, _)
bit_sum_counts_from(c, w) ==
  IF w > c.length THEN <<>>
  ELSE LET count == Cardinality({cw \in c.codewords : weight(cw) = w})
       IN  (IF count = 0 THEN <<>> ELSE <<(<<w, count>>)>>) \o bit_sum_counts_from(c, w + 1)

find_bit_sum_counts(c) == bit_sum_counts_from(c, 0)

\* Binary_code.choose_codewords_by_bit_sum
choose_codewords_by_bit_sum(c, low, high, replace_self) ==
  LET counts == find_bit_sum_counts(c)
  IN  IF high = -1 /\ counts = <<>> THEN Outcome("IndexError", c, "None")
      ELSE LET high_ == IF high = -1 THEN counts[Len(counts)][1] ELSE high
               new_codewords == {cw \in c.codewords : low <= weight(cw) /\ weight(cw) <= high_}
           IN  IF replace_self THEN Outcome("returned", Code(c.length, new_codewords), "None")
               ELSE Outcome("returned", c, new_codewords)

\* self.add(x) for every x of the sequence vals, until one raises
\* (o is bound to the outcome of the one add, computed once)
RECURSIVE add_each(_, _)
add_each(c, vals) ==
  IF vals = <<>> THEN Outcome("returned", c, "None")
  ELSE CHOOSE r \in {IF o.status # "returned" THEN o ELSE add_each(o.code, Tail(vals)) :
                      o \in {add(c, Head(vals))}} : TRUE

\* the product with "or" in the place of the sum mod 2
dot_mod2_Or(x, generator_matrix) ==
  [j \in 1..Len(generator_matrix[1]) |->
     IF \E i \in 1..Len(generator_matrix) : x[i] = 1 /\ generator_matrix[i][j] = 1
     THEN 1 ELSE 0]

\* numpy dot(x, generator_matrix) % 2
dot_mod2(x, generator_matrix) ==
  LET k == Len(generator_matrix)
      RECURSIVE column_sum(_, _)
      column_sum(j, i) == IF i > k THEN 0
                          ELSE x[i] * generator_matrix[i][j] + column_sum(j, i + 1)
  IN  [j \in 1..Len(generator_matrix[1]) |-> column_sum(j, 1) % 2]

\* Binary_code.get_code_from_generator_matrix(generator_matrix=..., expected_count=...)
get_code_from_generator_matrix(c, generator_matrix, expected_count) ==
  LET input_code_length == Len(generator_matrix)
      output_code_length == Len(generator_matrix[1])
      codeword_count == Pow2(input_code_length)
      RECURSIVE for_x(_, _)
      for_x(cc, x) ==
        IF x >= codeword_count THEN Outcome("returned", cc, "None")
        ELSE LET xw == Binary_codeword(Int_(x), input_code_length, FALSE)
             IN  IF xw.error # "" THEN Outcome(xw.error, cc, "None")
                 ELSE CHOOSE r \in {IF o.status # "returned" THEN o ELSE for_x(o.code, x + 1) :
                                     o \in {add(cc, List(dot_mod2(xw.codeword, generator_matrix)))}} :
                        TRUE
  IN  IF c.length # output_code_length THEN Outcome("BinaryCodeError", c, "None")
      ELSE IF expected_count # 0 /\ expected_count # codeword_count
           THEN Outcome("BinaryCodeError", c, "None")
           ELSE for_x(c, 0)

\* Binary_code.__init__(length, val, method, expected_count)
Binary_code(len, val, method, expected_count) ==
  LET empty == Code(len, {})
      filled == IF method = "list" THEN add_each(empty, val)
                ELSE IF method = "matrix" THEN get_code_from_generator_matrix(empty, val, 0)
                ELSE Outcome("BinaryCodeError", empty, "None")
  IN  IF filled.status # "returned" THEN filled
      ELSE IF expected_count # 0 /\ size_of(filled.code) # expected_count
           THEN Outcome("BinaryCodeError", filled.code, "None")
           ELSE filled

\* the parity bit taken from the length of the codeword
parity_bit_OfLength(codeword) == Len(codeword) % 2

\* add_parity_bit: "parity_bit = codeword.weight() % 2"
parity_bit(codeword) == weight(codeword) % 2

\* the codewords of a set, one after the other, as a sequence
RECURSIVE in_some_order(_)
in_some_order(S) ==
  IF S = {} THEN <<>>
  ELSE CHOOSE r \in {<<x>> \o in_some_order(S \ {x}) : x \in {CHOOSE y \in S : TRUE}} : TRUE

\* Binary_code.add_parity_bit
add_parity_bit(c) ==
  LET new_code == Binary_code(c.length + 1, <<>>, "list", 0)
      with_parity(order) == [i \in 1..Len(order) |->
                               Str(Append(order[i], parity_bit(order[i])))]
  IN  CHOOSE r \in {IF filled.status # "returned" THEN Outcome(filled.status, c, "None")
                    ELSE IF size_of(filled.code) # size_of(c)
                         THEN Outcome("AssertionError", c, "None")
                         ELSE Outcome("returned", c, filled.code) :
                    filled \in {add_each(new_code.code,
                                         with_parity(in_some_order(c.codewords)))}} : TRUE

\* Binary_code.invert
invert(c) ==
  LET new_code == Binary_code(c.length, <<>>, "list", 0)
      inverted(order) == [i \in 1..Len(order) |-> Str(invert_codeword(order[i]))]
  IN  CHOOSE r \in {IF filled.status # "returned" THEN Outcome(filled.status, c, "None")
                    ELSE Outcome("returned", c, filled.code) :
                    filled \in {add_each(new_code.code, inverted(in_some_order(c.codewords)))}} :
        TRUE

\* Binary_code.total_bit_sum
RECURSIVE sum_of_weights(_)
sum_of_weights(order) ==
  IF order = <<>> THEN 0 ELSE weight(Head(order)) + sum_of_weights(Tail(order))

total_bit_sum(c) == sum_of_weights(in_some_order(c.codewords))

\* what find_Hamming_distance_range returns: (None, None) or (low, high)
Range(none, low, high) == [none |-> none, low |-> low, high |-> high]

\* itertools.combinations(self.codewords, 2)
combinations2(S) == {p \in SUBSET S : Cardinality(p) = 2}

\* Binary_code.find_Hamming_distance_range: low starts at length+1 and high at
\* 0, and every pair of codewords lowers the one and raises the other
find_Hamming_distance_range(c) ==
  IF Cardinality(c.codewords) = 0 THEN Range(TRUE, 0, 0)
  ELSE LET dists == {Hamming_distance(x, y).value :
                       <<x, y>> \in {q \in c.codewords \X c.codewords :
                                       {q[1], q[2]} \in combinations2(c.codewords)}}
           lows == {c.length + 1} \cup dists
           highs == {0} \cup dists
       IN  Range(FALSE, CHOOSE d \in lows : \A e \in lows : d <= e,
                        CHOOSE d \in highs : \A e \in highs : d >= e)

\* a sample that may take an element more than once
random_sample_Repeating(population, k) ==
  {S \in SUBSET population : Cardinality(S) <= k /\ (k > 0 => S # {})}

\* set(random.sample(population, k)), 0 <= k <= len(population): every set of
\* k elements is a possible result
random_sample(population, k) == {S \in SUBSET population : Cardinality(S) = k}

\* Binary_code.give_N_codewords_random: the possible outcomes
give_N_codewords_random(c, N) ==
  IF N > size_of(c) THEN {Outcome("BinaryCodeError", c, "None")}
  ELSE IF N < 0 THEN {Outcome("ValueError", c, "None")}
  ELSE {Outcome("returned", c, new_codeword_set) :
          new_codeword_set \in random_sample(c.codewords, N)}

\* sorted(bit_sum_counts, reverse=True)
RECURSIVE reversed(_)
reversed(seq) == IF seq = <<>> THEN <<>> ELSE Append(reversed(Tail(seq)), Head(seq))

\* every bit-sum is used, enough codewords or not
bit_sums_to_use_All(bit_sum_counts, codeword_total, N) ==
  [i \in 1..Len(bit_sum_counts) |-> bit_sum_counts[i][1]]

\* give_N_codewords_by_bit_sum: "for bit_sum, codeword_count in bit_sum_counts",
\* the bit-sums kept until there are enough codewords
RECURSIVE bit_sums_to_use(_, _, _)
bit_sums_to_use(bit_sum_counts, codeword_total, N) ==
  IF bit_sum_counts = <<>> THEN <<>>
  ELSE LET bit_sum == Head(bit_sum_counts)[1]
           codeword_count == Head(bit_sum_counts)[2]
       IN  <<bit_sum>> \o
             (IF codeword_total + codeword_count >= N THEN <<>>
              ELSE bit_sums_to_use(Tail(bit_sum_counts), codeword_total + codeword_count, N))

\* Binary_code.give_N_codewords_by_bit_sum: the possible outcomes
give_N_codewords_by_bit_sum(c, N, take_high) ==
  IF N > size_of(c) THEN {Outcome("BinaryCodeError", c, "None")}
  ELSE LET bit_sum_counts == IF take_high THEN reversed(find_bit_sum_counts(c))
                             ELSE find_bit_sum_counts(c)
           to_use == bit_sums_to_use(bit_sum_counts, 0, N)
           used == {to_use[i] : i \in 1..Len(to_use)}
       IN  IF used = {} THEN {Outcome("ValueError", c, "None")}   \* min([])
           ELSE LET bit_sum_min == CHOOSE b \in used : \A d \in used : b <= d
                    bit_sum_max == CHOOSE b \in used : \A d \in used : b >= d
                    codewords_by_bit_sum ==
                      choose_codewords_by_bit_sum(c, bit_sum_min, bit_sum_max, FALSE)
                IN  IF codewords_by_bit_sum.status # "returned"
                    THEN {Outcome(codewords_by_bit_sum.status, c, "None")}
                    ELSE IF N < 0 \/ N > Cardinality(codewords_by_bit_sum.ret)
                         THEN {Outcome("ValueError", c, "None")}
                         ELSE {Outcome("returned", c, new_codeword_set) :
                                 new_codeword_set \in
                                   random_sample(codewords_by_bit_sum.ret, N)}

\* every returned set is the set self.codewords itself when it holds the same
\* codewords
object_of_Shared(op, c, ret) ==
  IF op \in {"add_parity_bit", "invert"} THEN "new_code"
  ELSE IF ret = c.codewords THEN "self.codewords"
  ELSE "new_codeword_set"

\* the object that a derived call returns: the Binary_code made by
\* "new_code = Binary_code(...)" (whose codewords are the "set()" of its
\* constructor), the set made by "new_codewords = set()" or by
\* "set(random.sample(...))"; never self and never the set self.codewords
object_of(op, c, ret) ==
  IF op \in {"add_parity_bit", "invert"} THEN "new_code"
  ELSE IF op = "choose_codewords_by_bit_sum" THEN "new_codewords"
  ELSE "new_codeword_set"

\* general_utilities.invert_dict_tolists: from key -> value to
\* value -> the keys that have it
invert_dict_tolists(dict) ==
  [v \in {dict[k] : k \in DOMAIN dict} |-> {k \in DOMAIN dict : dict[k] = v}]

\* clonality_count_conflicts: "if N_allowed_changes in [0, (0,0)]"
zero_changes(N_allowed_changes) == N_allowed_changes \in {<<0>>, <<0, 0>>}

\* the pair alone is counted, the codewords it conflicts with are not
counted_codewords_PairOnly(cws, expanded_conflict_values, N_allowed_changes, count_self_conflict, A, B) ==
  LET clonality_result == or(A, B).codeword
  IN  IF clonality_result \in cws \/ clonality_result \in DOMAIN expanded_conflict_values
      THEN {A, B} ELSE {}

\* count_self_conflict taken as False
counted_codewords_NoSelf(cws, expanded_conflict_values, N_allowed_changes, count_self_conflict, A, B) ==
  LET clonality_result == or(A, B).codeword
  IN  IF zero_changes(N_allowed_changes)
      THEN IF clonality_result \in {A, B} THEN {}
           ELSE IF clonality_result \in cws THEN {A, B, clonality_result}
           ELSE {}
      ELSE IF clonality_result \in DOMAIN expanded_conflict_values
           THEN IF expanded_conflict_values[clonality_result] \ {A, B} # {}
                THEN expanded_conflict_values[clonality_result] \cup {A, B}
                ELSE {}
           ELSE {}

\* clonality_count_conflicts, the body of "for A,B in itertools.combinations":
\* the codewords whose conflict count goes up by one for the pair A, B
counted_codewords(cws, expanded_conflict_values, N_allowed_changes, count_self_conflict, A, B) ==
  LET clonality_result == or(A, B).codeword
  IN  IF zero_changes(N_allowed_changes)
      THEN IF clonality_result \in {A, B}
           THEN IF count_self_conflict THEN {A, B} ELSE {}
           ELSE IF clonality_result \in cws THEN {A, B, clonality_result}
           ELSE {}
      ELSE IF clonality_result \in DOMAIN expanded_conflict_values
           THEN IF expanded_conflict_values[clonality_result] \ {A, B} # {}
                THEN expanded_conflict_values[clonality_result] \cup {A, B}
                ELSE IF count_self_conflict THEN {A, B} ELSE {}
           ELSE {}

\* the all-zero codeword is left out of the analysis, and left in the code
clonality_count_conflicts_OnCopy(c, N_allowed_changes, count_self_conflict, remove_all_zero_codeword) ==
  CHOOSE r \in
    {LET codeword_to_conflict_count ==
           [codeword \in c1.codewords |->
              Cardinality({p \in combinations2(c1.codewords) :
                             \E A, B \in p :
                               /\ A # B
                               /\ codeword \in counted_codewords(c1.codewords,
                                    expanded_conflict_values, N_allowed_changes,
                                    count_self_conflict, A, B)})]
     IN  Outcome("returned", c, invert_dict_tolists(codeword_to_conflict_count)) :
     <<c1, expanded_conflict_values>> \in
       {<<c2, IF zero_changes(N_allowed_changes) THEN <<>>
              ELSE expand_by_all_mutations_dict(c2.codewords, N_allowed_changes)>> :
          c2 \in {IF remove_all_zero_codeword THEN remove_extreme_codeword(c, 0).code
                  ELSE c}}} : TRUE

\* Binary_code.clonality_count_conflicts: the code after the call (the all-zero
\* codeword may be removed) and the conflict_count -> codeword set dictionary
clonality_count_conflicts(c, N_allowed_changes, count_self_conflict, remove_all_zero_codeword) ==
  CHOOSE r \in
    {LET codeword_to_conflict_count ==
           [codeword \in c1.codewords |->
              Cardinality({p \in combinations2(c1.codewords) :
                             \E A, B \in p :
                               /\ A # B
                               /\ codeword \in counted_codewords(c1.codewords,
                                    expanded_conflict_values, N_allowed_changes,
                                    count_self_conflict, A, B)})]
     IN  Outcome("returned", c1, invert_dict_tolists(codeword_to_conflict_count)) :
     <<c1, expanded_conflict_values>> \in
       {<<c2, IF zero_changes(N_allowed_changes) THEN <<>>
              ELSE expand_by_all_mutations_dict(c2.codewords, N_allowed_changes)>> :
          c2 \in {IF remove_all_zero_codeword THEN remove_extreme_codeword(c, 0).code
                  ELSE c}}} : TRUE

\* what one pair A, B adds: the codewords whose count goes up, and the
\* conflict details added to all_conflict_details (none, or one tuple)
PairConflict(counted, conflict_details) ==
  [counted |-> counted, conflict_details |-> conflict_details]

\* the special case that leaves the 'self' mark out of the details
special_case_NoMark(cws, N_allowed_changes, count_self_conflict, A, B) ==
  LET clonality_result == or(A, B).codeword
      conflict_info == <<{A, B}, clonality_result, {clonality_result}>>
  IN  IF clonality_result \in {A, B}
      THEN IF count_self_conflict
           THEN PairConflict({A, B}, {conflict_info \o <<"", N_allowed_changes>>})
           ELSE PairConflict({}, {})
      ELSE IF clonality_result \in cws
           THEN PairConflict({A, B, clonality_result},
                             {conflict_info \o <<"", N_allowed_changes>>})
           ELSE PairConflict({}, {})

\* clonality_count_conflicts, "Special case just for 0 allowed_changes": the
\* body of its loop over the pairs
special_case(cws, N_allowed_changes, count_self_conflict, A, B) ==
  LET clonality_result == or(A, B).codeword
      conflict_info == <<{A, B}, clonality_result, {clonality_result}>>
  IN  IF clonality_result \in {A, B}
      THEN IF count_self_conflict
           THEN PairConflict({A, B}, {conflict_info \o <<"self", N_allowed_changes>>})
           ELSE PairConflict({}, {})
      ELSE IF clonality_result \in cws
           THEN PairConflict({A, B, clonality_result},
                             {conflict_info \o <<"", N_allowed_changes>>})
           ELSE PairConflict({}, {})

\* clonality_count_conflicts, "Standard case": the body of its loop over the
\* pairs
standard_case(expanded_conflict_values, N_allowed_changes, count_self_conflict, A, B) ==
  LET clonality_result == or(A, B).codeword
  IN  IF clonality_result \in DOMAIN expanded_conflict_values
      THEN IF Cardinality(expanded_conflict_values[clonality_result] \ {A, B}) > 0
           THEN LET conflict_set == expanded_conflict_values[clonality_result] \ {A, B}
                IN  PairConflict(expanded_conflict_values[clonality_result] \cup {A, B},
                                 {<<{A, B}, clonality_result, conflict_set, "",
                                    N_allowed_changes>>})
           ELSE IF count_self_conflict
                THEN LET conflict_set == expanded_conflict_values[clonality_result] \cap {A, B}
                     IN  PairConflict({A, B},
                                      {<<{A, B}, clonality_result, conflict_set, "self",
                                         N_allowed_changes>>})
                ELSE PairConflict({}, {})
      ELSE PairConflict({}, {})

\* the pairs that "for A,B in itertools.combinations(self.codewords,2)" may
\* visit, either codeword of a pair first
ordered_pairs(cws) == {q \in cws \X cws : q[1] # q[2]}

\* what the loop over the pairs leaves behind, pair_conflicts giving what each
\* pair adds: the conflict_count -> codeword set dictionary and
\* all_conflict_details
conflicts_of_pairs(cws, pair_conflicts) ==
  LET codeword_to_conflict_count ==
        [codeword \in cws |->
           Cardinality({p \in combinations2(cws) :
                          \E A, B \in p :
                            A # B /\ codeword \in pair_conflicts[<<A, B>>].counted})]
  IN  [conflict_count_to_codeword_set |-> invert_dict_tolists(codeword_to_conflict_count),
       all_conflict_details |->
         UNION {pair_conflicts[q].conflict_details : q \in ordered_pairs(cws)}]

\* the special case run on the codewords
special_case_conflicts(cws, N_allowed_changes, count_self_conflict) ==
  conflicts_of_pairs(cws,
    [q \in ordered_pairs(cws) |->
       special_case(cws, N_allowed_changes, count_self_conflict, q[1], q[2])])

\* the standard case run on the codewords
standard_case_conflicts(cws, N_allowed_changes, count_self_conflict) ==
  CHOOSE r \in
    {conflicts_of_pairs(cws,
       [q \in ordered_pairs(cws) |->
          standard_case(expanded_conflict_values, N_allowed_changes,
                        count_self_conflict, q[1], q[2])]) :
     expanded_conflict_values \in
       {expand_by_all_mutations_dict(cws, N_allowed_changes)}} : TRUE

\* Binary_code.clonality_count_conflicts(..., return_conflict_details=True):
\* the code after the call, and the dictionary and the conflict details
clonality_count_conflicts_details(c, N_allowed_changes, count_self_conflict, remove_all_zero_codeword) ==
  CHOOSE r \in
    {Outcome("returned", c1,
             IF zero_changes(N_allowed_changes)
             THEN special_case_conflicts(c1.codewords, N_allowed_changes,
                                         count_self_conflict)
             ELSE standard_case_conflicts(c1.codewords, N_allowed_changes,
                                          count_self_conflict)) :
     c1 \in {IF remove_all_zero_codeword THEN remove_extreme_codeword(c, 0).code
             ELSE c}} : TRUE

\* Binary_code.clonality_conflict_check
clonality_conflict_check(c, N_allowed_changes, count_self_conflict, remove_all_zero_codeword) ==
  LET o == clonality_count_conflicts(c, N_allowed_changes, count_self_conflict,
                                     remove_all_zero_codeword)
  IN  Outcome("returned", o.code, DOMAIN o.ret \notin {{0}, {}})

\* the codewords of the lowest count there is
clonality_really_naive_reduction_Lowest(c, N_allowed_changes, count_self_conflict, remove_all_zero_codeword) ==
  LET o == clonality_count_conflicts(c, N_allowed_changes, count_self_conflict,
                                     remove_all_zero_codeword)
  IN  Outcome("returned", o.code,
              IF DOMAIN o.ret = {} THEN {}
              ELSE o.ret[CHOOSE k \in DOMAIN o.ret : \A j \in DOMAIN o.ret : k <= j])

\* Binary_code.clonality_really_naive_reduction
clonality_really_naive_reduction(c, N_allowed_changes, count_self_conflict, remove_all_zero_codeword) ==
  LET o == clonality_count_conflicts(c, N_allowed_changes, count_self_conflict,
                                     remove_all_zero_codeword)
  IN  Outcome("returned", o.code, IF 0 \in DOMAIN o.ret THEN o.ret[0] ELSE {})

(***************************************************************************)
(* The calls on a Binary_code.                                             *)
(***************************************************************************)
C == Code(length, codewords)

SetC(c) ==
  /\ length' = c.length
  /\ codewords' = c.codewords

CodeCall(op, val, status, ret) == [op |-> op, val |-> val, status |-> status, ret |-> ret]

\* the bit-strings of every length up to len
StrsUpTo(len) == {Str(bits) : bits \in UNION {Words(l) : l \in 0..len}}

\* what add and remove are called with: bit-strings one bit longer than the
\* codewords at most, and ints one more than the codewords can hold at most
Values(len) == StrsUpTo(len + 1) \cup {Int_(n) : n \in 0..Pow2(len)}

\* Binary_code.add called on the code
Add ==
  /\ call.op # "none"
  /\ \E val \in Values(length) :
       LET o == add(C, val)
       IN  /\ SetC(o.code)
           /\ call' = CodeCall("add", val, o.status, o.ret)
  /\ before' = C
  /\ UNCHANGED <<out, gvars>>

\* Binary_code.remove called on the code
Remove ==
  /\ call.op # "none"
  /\ \E val \in Values(length) :
       LET o == remove(C, val)
       IN  /\ SetC(o.code)
           /\ call' = CodeCall("remove", val, o.status, o.ret)
  /\ before' = C
  /\ UNCHANGED <<out, gvars>>

\* Binary_code.remove_extreme_codeword called on the code
RemoveExtremeCodeword ==
  /\ call.op # "none"
  /\ \E bit \in 0..2 :
       LET o == remove_extreme_codeword(C, bit)
       IN  /\ SetC(o.code)
           /\ call' = CodeCall("remove_extreme_codeword", bit, o.status, o.ret)
  /\ before' = C
  /\ UNCHANGED <<out, gvars>>

\* Binary_code.choose_codewords_by_bit_sum(low, high, replace_self=True) called
\* on the code
ChooseCodewordsByBitSum ==
  /\ call.op # "none"
  /\ \E low \in 0..(length + 1), high \in -1..(length + 1) :
       LET o == choose_codewords_by_bit_sum(C, low, high, TRUE)
       IN  /\ SetC(o.code)
           /\ call' = CodeCall("choose_codewords_by_bit_sum", <<low, high>>,
                               o.status, o.ret)
  /\ before' = C
  /\ UNCHANGED <<out, gvars>>

\* the code is as its constructor returned it: the calls that follow leave
\* self as it is, so each of them is made on the constructed code
JustConstructed == call.op = "Binary_code" /\ call.status = "returned"

\* Binary_code.add_parity_bit called on the code
AddParityBit ==
  /\ JustConstructed
  /\ LET o == add_parity_bit(C)
     IN  /\ SetC(o.code)
         /\ call' = CodeCall("add_parity_bit", 0, o.status, "None")
         /\ out' = o.ret
  /\ before' = C
  /\ UNCHANGED gvars

\* Binary_code.invert called on the code
Invert ==
  /\ JustConstructed
  /\ LET o == invert(C)
     IN  /\ SetC(o.code)
         /\ call' = CodeCall("invert", 0, o.status, "None")
         /\ out' = o.ret
  /\ before' = C
  /\ UNCHANGED gvars

\* Binary_code.find_Hamming_distance_range called on the code
FindHammingDistanceRange ==
  /\ JustConstructed
  /\ call' = CodeCall("find_Hamming_distance_range", 0, "returned", "None")
  /\ out' = find_Hamming_distance_range(C)
  /\ before' = C
  /\ UNCHANGED <<length, codewords, gvars>>

\* Binary_code.choose_codewords_by_bit_sum(low, high), replace_self=False,
\* called on the code: the set is returned
ChooseCodewordsByBitSumReturn ==
  /\ JustConstructed
  /\ \E low \in 0..(length + 1), high \in -1..(length + 1) :
       LET o == choose_codewords_by_bit_sum(C, low, high, FALSE)
       IN  /\ SetC(o.code)
           /\ call' = CodeCall("choose_codewords_by_bit_sum", <<low, high>>,
                               o.status, "None")
           /\ out' = o.ret
  /\ before' = C
  /\ UNCHANGED gvars

\* Binary_code.give_N_codewords_random(N) called on the code
GiveNCodewordsRandom ==
  /\ JustConstructed
  /\ \E N \in -1..(Cardinality(codewords) + 1) :
       \E o \in give_N_codewords_random(C, N) :
         /\ SetC(o.code)
         /\ call' = CodeCall("give_N_codewords_random", N, o.status, "None")
         /\ out' = o.ret
  /\ before' = C
  /\ UNCHANGED gvars

\* Binary_code.give_N_codewords_by_bit_sum(N, take_high) called on the code
GiveNCodewordsByBitSum ==
  /\ JustConstructed
  /\ \E N \in -1..(Cardinality(codewords) + 1), take_high \in BOOLEAN :
       \E o \in give_N_codewords_by_bit_sum(C, N, take_high) :
         /\ SetC(o.code)
         /\ call' = CodeCall("give_N_codewords_by_bit_sum", <<N, take_high>>,
                             o.status, "None")
         /\ out' = o.ret
  /\ before' = C
  /\ UNCHANGED gvars

\* Binary_code.find_bit_sum_counts called on the code
FindBitSumCounts ==
  /\ JustConstructed
  /\ call' = CodeCall("find_bit_sum_counts", 0, "returned", "None")
  /\ out' = find_bit_sum_counts(C)
  /\ before' = C
  /\ UNCHANGED <<length, codewords, gvars>>

\* Binary_code.total_bit_sum called on the code
TotalBitSum ==
  /\ JustConstructed
  /\ call' = CodeCall("total_bit_sum", 0, "returned", "None")
  /\ out' = total_bit_sum(C)
  /\ before' = C
  /\ UNCHANGED <<length, codewords, gvars>>

\* add or remove called on the Binary_code that add_parity_bit or invert
\* returned
ChangeReturnedCode ==
  /\ call.status = "returned"
  /\ call.op \in {"add_parity_bit", "invert"}
  /\ \E val \in Values(out.length), adding \in BOOLEAN :
       \E o \in {IF adding THEN add(out, val) ELSE remove(out, val)} :
         /\ out' = o.code
         /\ IF object_of(call.op, C, out) \in {"self", "self.codewords"}
            THEN SetC(o.code) ELSE UNCHANGED <<length, codewords>>
         /\ call' = CodeCall(IF adding THEN "returned.add" ELSE "returned.remove",
                             val, o.status, call.op)
  /\ UNCHANGED <<before, gvars>>

\* set.add or set.remove called with a codeword on the set that
\* choose_codewords_by_bit_sum or give_N_codewords_... returned
ChangeReturnedSet ==
  /\ call.status = "returned"
  /\ call.op \in {"choose_codewords_by_bit_sum", "give_N_codewords_random",
                   "give_N_codewords_by_bit_sum"}
  /\ \E codeword \in Words(length), adding \in BOOLEAN :
       LET status == IF adding \/ codeword \in out THEN "returned" ELSE "KeyError"
           changed == IF adding THEN out \cup {codeword} ELSE out \ {codeword}
       IN  /\ out' = changed
           /\ IF object_of(call.op, C, out) \in {"self", "self.codewords"}
              THEN codewords' = changed ELSE UNCHANGED codewords
           /\ call' = CodeCall(IF adding THEN "returned.add" ELSE "returned.remove",
                               codeword, status, call.op)
  /\ UNCHANGED <<length, before, gvars>>

\* the N_permitted_changes arguments tried on codewords of L bits: the ints up
\* to one more than the bits there are, and the pairs of ints up to L
Budgets(L) == {<<n>> : n \in 0..(L + 1)} \cup {<<a, b>> : a, b \in 0..L}

\* expand_by_all_mutations(self.codewords, N_permitted_changes)
ExpandByAllMutations ==
  /\ JustConstructed
  /\ \E N_permitted_changes \in Budgets(length) :
       /\ call' = CodeCall("expand_by_all_mutations", N_permitted_changes, "returned", "None")
       /\ out' = expand_by_all_mutations(codewords, N_permitted_changes)
  /\ before' = C
  /\ UNCHANGED <<length, codewords, gvars>>

\* expand_by_all_mutations_dict(self.codewords, N_permitted_changes)
ExpandByAllMutationsDict ==
  /\ JustConstructed
  /\ \E N_permitted_changes \in Budgets(length) :
       /\ call' = CodeCall("expand_by_all_mutations_dict", N_permitted_changes,
                           "returned", "None")
       /\ out' = expand_by_all_mutations_dict(codewords, N_permitted_changes)
  /\ before' = C
  /\ UNCHANGED <<length, codewords, gvars>>

\* the N_allowed_changes arguments tried: ints and pairs of ints up to MaxChanges
ClonalityBudgets == {<<n>> : n \in 0..MaxChanges} \cup {<<a, b>> : a, b \in 0..MaxChanges}

\* how a clonality call was made
ClonalityArgs(N_allowed_changes, count_self_conflict, remove_all_zero_codeword) ==
  [N_allowed_changes |-> N_allowed_changes, count_self_conflict |-> count_self_conflict,
   remove_all_zero_codeword |-> remove_all_zero_codeword]

\* Binary_code.clonality_count_conflicts called on the code
ClonalityCountConflicts ==
  /\ JustConstructed
  /\ \E N_allowed_changes \in ClonalityBudgets, count_self_conflict \in BOOLEAN,
        remove_all_zero_codeword \in BOOLEAN :
       \E o \in {clonality_count_conflicts(C, N_allowed_changes, count_self_conflict,
                                           remove_all_zero_codeword)} :
         /\ SetC(o.code)
         /\ call' = CodeCall("clonality_count_conflicts",
                             ClonalityArgs(N_allowed_changes, count_self_conflict,
                                           remove_all_zero_codeword),
                             o.status, "None")
         /\ out' = o.ret
  /\ before' = C
  /\ UNCHANGED gvars

\* Binary_code.clonality_really_naive_reduction called on the code
ClonalityReallyNaiveReduction ==
  /\ JustConstructed
  /\ \E N_allowed_changes \in ClonalityBudgets, count_self_conflict \in BOOLEAN,
        remove_all_zero_codeword \in BOOLEAN :
       \E o \in {clonality_really_naive_reduction(C, N_allowed_changes,
                   count_self_conflict, remove_all_zero_codeword)} :
         /\ SetC(o.code)
         /\ call' = CodeCall("clonality_really_naive_reduction",
                             ClonalityArgs(N_allowed_changes, count_self_conflict,
                                           remove_all_zero_codeword),
                             o.status, "None")
         /\ out' = o.ret
  /\ before' = C
  /\ UNCHANGED gvars

\* Binary_code.clonality_count_conflicts called on the code with
\* return_conflict_details=True
ClonalityCountConflictsDetails ==
  /\ JustConstructed
  /\ \E N_allowed_changes \in ClonalityBudgets, count_self_conflict \in BOOLEAN,
        remove_all_zero_codeword \in BOOLEAN :
       \E o \in {clonality_count_conflicts_details(C, N_allowed_changes,
                   count_self_conflict, remove_all_zero_codeword)} :
         /\ SetC(o.code)
         /\ call' = CodeCall("clonality_count_conflicts_details",
                             ClonalityArgs(N_allowed_changes, count_self_conflict,
                                           remove_all_zero_codeword),
                             o.status, "None")
         /\ out' = o.ret
  /\ before' = C
  /\ UNCHANGED gvars

\* Binary_code.clonality_conflict_check called on the code
ClonalityConflictCheck ==
  /\ JustConstructed
  /\ \E N_allowed_changes \in ClonalityBudgets, count_self_conflict \in BOOLEAN,
        remove_all_zero_codeword \in BOOLEAN :
       \E o \in {clonality_conflict_check(C, N_allowed_changes, count_self_conflict,
                                          remove_all_zero_codeword)} :
         /\ SetC(o.code)
         /\ call' = CodeCall("clonality_conflict_check",
                             ClonalityArgs(N_allowed_changes, count_self_conflict,
                                           remove_all_zero_codeword),
                             o.status, "None")
         /\ out' = o.ret
  /\ before' = C
  /\ UNCHANGED gvars

\* the three analyses
ClonalityOps ==
  {"clonality_count_conflicts", "clonality_conflict_check",
   "clonality_really_naive_reduction"}

\* the analysis of that name
clonality_call(op, c, N_allowed_changes, count_self_conflict, remove_all_zero_codeword) ==
  IF op = "clonality_count_conflicts"
  THEN clonality_count_conflicts(c, N_allowed_changes, count_self_conflict,
                                 remove_all_zero_codeword)
  ELSE IF op = "clonality_conflict_check"
  THEN clonality_conflict_check(c, N_allowed_changes, count_self_conflict,
                                remove_all_zero_codeword)
  ELSE clonality_really_naive_reduction(c, N_allowed_changes, count_self_conflict,
                                        remove_all_zero_codeword)

\* a second analysis of the same Binary_code object, after a first one has
\* returned: "before" stays the code as it was constructed, and the call
\* records whether the first analysis was told to remove the all-zero codeword
LaterClonalityCall(op) ==
  /\ call.op \in ClonalityOps
  /\ call.status = "returned"
  /\ call.ret = "None"
  /\ \E N_allowed_changes \in ClonalityBudgets, count_self_conflict \in BOOLEAN,
        remove_all_zero_codeword \in BOOLEAN :
       \E o \in {clonality_call(op, C, N_allowed_changes, count_self_conflict,
                                remove_all_zero_codeword)} :
         /\ SetC(o.code)
         /\ call' = CodeCall(op,
                             ClonalityArgs(N_allowed_changes, count_self_conflict,
                                           remove_all_zero_codeword),
                             o.status,
                             IF call.val.remove_all_zero_codeword
                             THEN "after removal" ELSE "after no removal")
         /\ out' = o.ret
  /\ UNCHANGED <<before, gvars>>

ClonalityCountConflictsLater == LaterClonalityCall("clonality_count_conflicts")

ClonalityConflictCheckLater == LaterClonalityCall("clonality_conflict_check")

ClonalityReallyNaiveReductionLater == LaterClonalityCall("clonality_really_naive_reduction")

\* the expected_count arguments tried with a matrix of k rows: none, the
\* sizes a linear code of k generators can have, and one size it cannot have
ExpectedCounts(k) == {0} \cup {Pow2(j) : j \in 0..k} \cup {Pow2(k) + 1}

\* Binary_code(length, val=generator_matrix, method='matrix', expected_count=...):
\* the code object exists only if the constructor returns
FromGeneratorMatrix ==
  /\ call.op = "none"
  /\ \E k \in 1..MaxRows, L \in 1..MaxLength :
       \E generator_matrix \in [1..k -> Words(L)], len \in {L, L + 1},
          expected_count \in ExpectedCounts(k) :
         LET o == Binary_code(len, generator_matrix, "matrix", expected_count)
         IN  /\ IF o.status = "returned" THEN SetC(o.code)
                ELSE UNCHANGED <<length, codewords>>
             /\ call' = CodeCall("Binary_code",
                                 [length |-> len, val |-> generator_matrix,
                                  method |-> "matrix", expected_count |-> expected_count],
                                 o.status, "None")
  /\ before' = C
  /\ UNCHANGED <<out, gvars>>

(***************************************************************************)
(* The calls on Binary_codeword values.                                    *)
(***************************************************************************)
\* what a Binary_codeword is made from: a str, an int, a list or a
\* Binary_codeword, with the str as it was written
Argument(val, text) == [val |-> val, text |-> text]

Arguments ==
  {Argument(Str(BitArray_bin(text)), text) : text \in Texts(MaxWordLength)}
    \cup {Argument(Int_(n), <<>>) : n \in 0..Pow2(MaxWordLength)}
    \cup {Argument(List(bits), <<>>) : bits \in UNION {Words(l) : l \in 0..MaxWordLength}}

\* the codewords of up to MaxWordLength bits
ShortWords == UNION {Words(l) : l \in 0..MaxWordLength}

\* Each call below is made once, on values new to it: the functions are pure.
\* Binary_codeword(val, length, check_length); length -1 stands for None
NewCodeword ==
  /\ call.op = "none"
  /\ \E arg \in Arguments, len \in -1..(MaxWordLength + 1), check_length \in BOOLEAN :
       /\ call' = CodeCall("Binary_codeword",
                           [val |-> arg.val, text |-> arg.text, length |-> len,
                            check_length |-> check_length],
                           (IF Binary_codeword(arg.val, len, check_length).error = ""
                            THEN "returned"
                            ELSE Binary_codeword(arg.val, len, check_length).error),
                           "None")
       /\ out' = Binary_codeword(arg.val, len, check_length).codeword
  /\ UNCHANGED <<length, codewords, before, gvars>>

\* Binary_codeword(val).string() and Binary_codeword(Binary_codeword(val)), val a str
StringAndCopy ==
  /\ call.op = "none"
  /\ \E text \in Texts(MaxWordLength) :
       \E made \in {Binary_codeword(Str(BitArray_bin(text)), -1, FALSE)} :
         /\ call' = CodeCall("string", [text |-> text, codeword |-> made.codeword],
                             "returned", "None")
         /\ out' = [string |-> string(made.codeword),
                    copy |-> Binary_codeword(Codeword_(made.codeword), -1, FALSE)]
  /\ UNCHANGED <<length, codewords, before, gvars>>

\* self == other, cmp(self, other) and the two hashes, of two codewords
CompareCodewords ==
  /\ call.op = "none"
  /\ \E self, other \in ShortWords :
       /\ call' = CodeCall("__cmp__", [self |-> self, other |-> other], "returned", "None")
       /\ out' = [cmp |-> codeword_cmp(self, other),
                  hashes |-> <<codeword_hash(self), codeword_hash(other)>>]
  /\ UNCHANGED <<length, codewords, before, gvars>>

\* Hamming_distance(val1, val2) of two codewords
HammingDistance ==
  /\ call.op = "none"
  /\ \E val1, val2 \in ShortWords :
       /\ call' = CodeCall("Hamming_distance", [val1 |-> val1, val2 |-> val2],
                           (IF Hamming_distance(val1, val2).error = "" THEN "returned"
                            ELSE Hamming_distance(val1, val2).error),
                           "None")
       /\ out' = Hamming_distance(val1, val2).value
  /\ UNCHANGED <<length, codewords, before, gvars>>

(***************************************************************************)
(* Specifications of the graph part.                                       *)
(***************************************************************************)
Pairs(S) == {{a, b} : a, b \in S} \ {{a} : a \in S}

\* no Binary_code object
InitNoCode ==
  /\ length = 0
  /\ codewords = {}
  /\ before = Code(0, {})
  /\ call = CodeCall("none", 0, "returned", "None")
  /\ out = "None"

InitGraph(n) ==
  /\ InitNoCode
  /\ universe = 1..n
  /\ \E edge_function \in SUBSET Pairs(1..n) :
       LET g == build_edges_by_function(1..n, edge_function)
       IN  /\ nodes = g.nodes
           /\ size = g.size
           /\ neighbors = g.neighbors
           /\ degree = g.degree
           /\ pre = g
  /\ stack = <<>>
  /\ required_nodes = {}
  /\ last = Call("build_edges_by_function", 0, FALSE, 0, "returned")

ReduceSteps == VisitNode \/ EndOfPass \/ CheckAndSplit \/ TryWithoutNode \/ AfterRecursion

\* reduce_to_clique on graphs as build_edges_by_function makes them
InitClique == InitGraph(NumNodes)
NextClique == ReduceToClique \/ ReduceSteps
SpecClique == InitClique /\ [][NextClique]_vars

\* remove_nodes_by_degree on graphs as build_edges_by_function makes them, and
\* on what it leaves of them
NextDegree == RemoveNodesByDegree \/ VisitNode \/ EndOfPass
SpecDegree == InitClique /\ [][NextDegree]_vars

\* the same on graphs with one node more
InitCliqueWide == InitGraph(NumNodes + 1)
SpecCliqueWide == InitCliqueWide /\ [][NextClique]_vars

\* any sequence of calls on a graph
InitCalls == InitGraph(NumCallNodes)
NextCalls == RemoveNode \/ AddNodeWithNeighbors \/ RemoveNodesByDegree \/ NextClique
SpecCalls == InitCalls /\ [][NextCalls]_vars

\* reduce_to_clique as a call that keeps running once it is made: the
\* interpreter takes the next step of a running call
SpecCliqueLive == InitCalls /\ [][NextClique]_vars /\ WF_vars(ReduceSteps)

(***************************************************************************)
(* Specifications of the code part.                                        *)
(***************************************************************************)
\* no graph: Graph() with no inputs
InitNoGraph ==
  /\ universe = {}
  /\ nodes = {}
  /\ size = 0
  /\ neighbors = <<>>
  /\ degree = <<>>
  /\ pre = build_edges_by_function({}, {})
  /\ stack = <<>>
  /\ required_nodes = {}
  /\ last = Call("none", 0, FALSE, 0, "returned")

\* Binary_code(length): an empty code
InitEmptyCode(maxlen) ==
  /\ InitNoGraph
  /\ \E L \in 1..maxlen :
       LET o == Binary_code(L, <<>>, "list", 0)
       IN  /\ length = o.code.length
           /\ codewords = o.code.codewords
           /\ before = o.code
           /\ call = CodeCall("Binary_code", 0, o.status, "None")
  /\ out = "None"

\* Binary_code(length, val) for every list val of distinct bit-strings of that length
InitAnyCode(maxlen) ==
  /\ InitNoGraph
  /\ \E L \in 1..maxlen :
       \E cws \in SUBSET Words(L) :
         \E order \in {in_some_order(cws)} :
           \E o \in {Binary_code(L, [i \in 1..Len(order) |-> Str(order[i])], "list", 0)} :
             /\ length = o.code.length
             /\ codewords = o.code.codewords
             /\ before = o.code
             /\ call = CodeCall("Binary_code", 0, o.status, "None")
  /\ out = "None"

\* add, remove and the like on a code that starts empty
InitCode == InitEmptyCode(MaxAddLength)
NextCode == Add \/ Remove \/ RemoveExtremeCodeword \/ ChooseCodewordsByBitSum
SpecCode == InitCode /\ [][NextCode]_vars

\* the operations that derive a new code or a set from a code
InitDerived == InitAnyCode(MaxLength)
NextDerived == AddParityBit \/ Invert \/ FindHammingDistanceRange
SpecDerived == InitDerived /\ [][NextDerived]_vars

\* the operations that give some of the codewords of a code
InitSample == InitAnyCode(MaxSampleLength)
NextSample ==
  \/ ChooseCodewordsByBitSumReturn \/ GiveNCodewordsRandom
  \/ GiveNCodewordsByBitSum
SpecSample == InitSample /\ [][NextSample]_vars

\* the derived and query operations, and what is done afterwards with the
\* code or set that they returned
NextShared ==
  \/ AddParityBit \/ Invert \/ FindHammingDistanceRange
  \/ FindBitSumCounts \/ TotalBitSum
  \/ ChooseCodewordsByBitSumReturn \/ GiveNCodewordsRandom
  \/ GiveNCodewordsByBitSum
  \/ ChangeReturnedCode \/ ChangeReturnedSet
SpecShared == InitSample /\ [][NextShared]_vars

\* Binary_code(length, val) for every list val of at most maxsize distinct
\* bit-strings of that length
InitSmallCode(maxlen, maxsize) ==
  /\ InitNoGraph
  /\ \E L \in 1..maxlen :
       \E cws \in {S \in SUBSET Words(L) : Cardinality(S) <= maxsize} :
         \E order \in {in_some_order(cws)} :
           \E o \in {Binary_code(L, [i \in 1..Len(order) |-> Str(order[i])], "list", 0)} :
             /\ length = o.code.length
             /\ codewords = o.code.codewords
             /\ before = o.code
             /\ call = CodeCall("Binary_code", 0, o.status, "None")
  /\ out = "None"

\* the expansion of the codewords of a code by all mutations
InitExpand == InitSmallCode(MaxExpandLength, MaxExpandSize)
NextExpand == ExpandByAllMutations \/ ExpandByAllMutationsDict
SpecExpand == InitExpand /\ [][NextExpand]_vars

\* the clonality conflicts of a code
InitClonality == InitSmallCode(MaxClonalityLength, MaxClonalitySize)
NextClonality == ClonalityCountConflicts \/ ClonalityReallyNaiveReduction
SpecClonality == InitClonality /\ [][NextClonality]_vars

\* the conflict counts with the conflict details
NextDetails == ClonalityCountConflictsDetails
SpecDetails == InitClonality /\ [][NextDetails]_vars

\* one analysis of a code, and then another of the same object
InitTwice == InitSmallCode(MaxTwiceLength, MaxClonalitySize)
NextTwice ==
  \/ ClonalityCountConflicts \/ ClonalityConflictCheck
  \/ ClonalityReallyNaiveReduction
  \/ ClonalityCountConflictsLater \/ ClonalityConflictCheckLater
  \/ ClonalityReallyNaiveReductionLater
SpecTwice == InitTwice /\ [][NextTwice]_vars

\* construction from a generator matrix
InitMatrix == InitNoGraph /\ InitNoCode
NextMatrix == FromGeneratorMatrix
SpecMatrix == InitMatrix /\ [][NextMatrix]_vars

\* codewords made, written, compared and measured
NextCodeword == NewCodeword \/ StringAndCopy \/ CompareCodewords \/ HammingDistance
SpecCodeword == InitMatrix /\ [][NextCodeword]_vars

(***************************************************************************)
(* Properties of the graph part.                                           *)
(***************************************************************************)
\* every two distinct nodes of the graph are neighbours
GenuineClique(g) ==
  \A a, b \in g.nodes : a # b => b \in g.neighbors[a]

\* some k or more nodes of the graph (one at least) are pairwise neighbours
ContainsClique(g, k) ==
  \E S \in SUBSET g.nodes :
    /\ S # {}
    /\ Cardinality(S) >= k
    /\ \A a, b \in S : a # b => b \in g.neighbors[a]

Returned(op) == Idle /\ last.op = op /\ last.status = "returned"

\* C1: when reduce_to_clique(min_size) returns on a graph made by
\* build_edges_by_function, whatever the order the nodes were visited in, the
\* graph is empty or its nodes are pairwise neighbours and at least min_size many.
C1_EmptyOrClique ==
  Returned("reduce_to_clique") =>
    \/ nodes = {}
    \/ GenuineClique(G) /\ Cardinality(nodes) >= last.min

\* C1 witness: a call that removed nodes and left a clique of three or more nodes
C1_Witness ==
  /\ Returned("reduce_to_clique")
  /\ last.min >= 3
  /\ Cardinality(nodes) >= 3
  /\ nodes # pre.nodes

\* C2: whenever the graph reduce_to_clique(min_size) is called on contains a
\* clique of min_size or more nodes, the graph it leaves is not empty.
C2_FindsExistingClique ==
  (Returned("reduce_to_clique") /\ ContainsClique(pre, last.min)) => nodes # {}

\* C3: reduce_to_clique(min_size) on a graph that is a clique of min_size or
\* more nodes returns with the node set, the size and every node's neighbours
\* and degree as they were.
C3_CliqueUnchanged ==
  (Returned("reduce_to_clique") /\ GenuineClique(pre) /\ pre.size >= last.min) =>
    G = pre

\* C3 witness: a call on a clique of three nodes or more that asks for as many
\* nodes as the clique has
C3_Witness ==
  /\ Returned("reduce_to_clique")
  /\ GenuineClique(pre)
  /\ pre.size >= 3
  /\ last.min = pre.size

\* C4: after any sequence of calls, failed ones included, every node of the
\* graph has degree = number of its neighbours, is listed by every neighbour it
\* lists, and size = number of nodes of the graph.
C4_GraphConsistent ==
  Idle =>
    /\ size = Cardinality(nodes)
    /\ \A n \in nodes :
         /\ degree[n] = Cardinality(neighbors[n])
         /\ \A m \in neighbors[n] : n \in neighbors[m]

\* C4 witness: a call has ended in GraphNodeError after changing the graph, and
\* a node of the graph lists a neighbour that is not in the graph
C4_Witness ==
  /\ Idle
  /\ last.status = "GraphNodeError"
  /\ G # pre
  /\ \E n \in nodes : neighbors[n] \ nodes # {}

\* C5: remove_node(n, keep_neighbor_record=True) followed directly by
\* add_node_with_neighbors(n) succeeds and gives back the node set, the size and
\* every node's neighbours and degree of before the removal.
C5_AddUndoesRemove ==
  [][(/\ last.op = "remove_node"
      /\ last.keep_neighbor_record
      /\ last.status = "returned"
      /\ last'.op = "add_node_with_neighbors"
      /\ last'.node = last.node)
     => (last'.status = "returned" /\ G' = pre)]_vars

\* C5 witness: a node with two kept neighbours has just been added back to the
\* graph it was detached from
C5_Witness ==
  /\ Returned("add_node_with_neighbors")
  /\ Cardinality(neighbors[last.node]) >= 2
  /\ pre.nodes = nodes \ {last.node}
  /\ pre.neighbors[last.node] = neighbors[last.node]
  /\ \A m \in neighbors[last.node] : last.node \notin pre.neighbors[m]

(***************************************************************************)
(* Properties of the code part.                                            *)
(***************************************************************************)
\* the number a bit sequence writes in base 2, first bit highest
NumberOf(bits) ==
  LET RECURSIVE upto(_)
      upto(i) == IF i = 0 THEN 0 ELSE 2 * upto(i - 1) + bits[i]
  IN  upto(Len(bits))

\* val is a bit-string of L bits or an int that L bits can hold
DenotesWord(val, L) ==
  \/ val.type = "str" /\ Len(val.bits) = L
  \/ val.type = "int" /\ \E w \in Words(L) : NumberOf(w) = val.n

\* the codeword of c that val denotes is a member of c
Member(val, c) ==
  \E w \in c.codewords :
    \/ val.type = "str" /\ val.bits = w
    \/ val.type = "int" /\ NumberOf(w) = val.n

\* (x.G) mod 2, bit by bit
Product(x, M) ==
  [j \in 1..Len(M[1]) |-> Cardinality({i \in 1..Len(M) : x[i] = 1 /\ M[i][j] = 1}) % 2]

\* every (x.G) mod 2, x a vector of as many bits as the matrix has rows
LinearCode(M) == {Product(x, M) : x \in Words(Len(M))}

\* the rows of the matrix are linearly independent over GF(2)
Independent(M) ==
  \A x \in Words(Len(M)) :
    (\E i \in 1..Len(M) : x[i] = 1) => (\E j \in 1..Len(M[1]) : Product(x, M)[j] = 1)

\* the last call was Binary_code(length, generator_matrix, 'matrix', expected_count)
MatrixCall == call.op = "Binary_code" /\ call.val.method = "matrix"

\* C6 as amended: a Binary_code constructed with method 'matrix' from a k x L
\* generator matrix holds the codewords (x.G) mod 2 of the length-k vectors x and
\* no others: 2^k of them when the rows are linearly independent and fewer when
\* they are not.  The construction returns exactly when the code length is L and
\* expected_count is 0 (not given) or the size of that set; otherwise it fails
\* with BinaryCodeError.
C6_MatrixCode ==
  MatrixCall =>
    LET M == call.val.val
        fits == call.val.length = Len(M[1])
        counted == call.val.expected_count \in {0, Cardinality(LinearCode(M))}
    IN  /\ call.status = "returned" <=> (fits /\ counted)
        /\ call.status # "returned" => call.status = "BinaryCodeError"
        /\ call.status = "returned" =>
             /\ length = call.val.length
             /\ codewords = LinearCode(M)
             /\ Cardinality(codewords) <= Pow2(Len(M))
             /\ Cardinality(codewords) = Pow2(Len(M)) <=> Independent(M)

\* C6 witness: a code made from two equal non-zero rows, with its two
\* codewords as the expected count
C6_Witness ==
  /\ MatrixCall
  /\ call.status = "returned"
  /\ Len(call.val.val) = 2
  /\ call.val.val[1] = call.val.val[2]
  /\ call.val.expected_count = 2
  /\ Cardinality(codewords) = 2

\* C6 as stated: a code constructed from any k x L matrix, rows repeated or
\* dependent or not, has exactly 2^k codewords, each (x.G) mod 2, and the
\* construction fails with BinaryCodeError when expected_count differs from
\* the resulting size.
C6_Original ==
  (MatrixCall /\ call.val.length = Len(call.val.val[1])) =>
    LET M == call.val.val
    IN  /\ call.status = "returned" =>
             /\ Cardinality(codewords) = Pow2(Len(M))
             /\ codewords \subseteq LinearCode(M)
        /\ call.val.expected_count # Cardinality(LinearCode(M)) =>
             call.status = "BinaryCodeError"

\* C7: after the construction and any calls of add, remove,
\* remove_extreme_codeword and choose_codewords_by_bit_sum(replace_self=True),
\* returning or raising, every member of the code has exactly code.length bits
\* (members are held as a set of bit sequences, so no two are equal), and an
\* add of a value that was a member already leaves the size as it was.
C7_LengthAndUnique ==
  /\ \A w \in codewords : w \in Words(length)
  /\ (call.op = "add" /\ call.status = "returned" /\ Member(call.val, before)) =>
       Cardinality(codewords) = Cardinality(before.codewords)

\* C7 witness: an add of a member of a code of two codewords or more has returned
C7_Witness ==
  /\ call.op = "add"
  /\ call.status = "returned"
  /\ Member(call.val, before)
  /\ Cardinality(codewords) >= 2

AllBits(L, bit) == [i \in 1..L |-> bit]

\* C9: remove_extreme_codeword(bit), bit 0 or 1, never raises; it returns 1 and
\* removes the all-bit codeword and nothing else if that codeword was a member,
\* and returns 0 and changes nothing if it was not; the same call made again
\* right after it returns 0 and changes nothing.
C9_RemoveExtreme ==
  /\ [](call.op = "remove_extreme_codeword" /\ call.val \in {0, 1} =>
          /\ call.status = "returned"
          /\ length = before.length
          /\ IF AllBits(before.length, call.val) \in before.codewords
             THEN /\ call.ret = 1
                  /\ codewords = before.codewords \ {AllBits(before.length, call.val)}
             ELSE /\ call.ret = 0
                  /\ codewords = before.codewords)
  /\ [][(/\ call.op = "remove_extreme_codeword"
         /\ call.val \in {0, 1}
         /\ call'.op = "remove_extreme_codeword"
         /\ call'.val = call.val)
        => (call'.status = "returned" /\ call'.ret = 0 /\ C' = C)]_vars

\* C9 witness: the all-one codeword has been taken out of a code that keeps
\* two other codewords
C9_Witness ==
  /\ call.op = "remove_extreme_codeword"
  /\ call.val = 1
  /\ call.ret = 1
  /\ AllBits(length, 1) \in before.codewords
  /\ Cardinality(codewords) >= 2

\* the number of positions where two bit sequences of one length differ
Distance(a, b) == Cardinality({i \in 1..Len(a) : a[i] # b[i]})

\* the distances between the pairs of distinct members of S
Distances(S) == {Distance(a, b) : <<a, b>> \in {p \in S \X S : p[1] # p[2]}}

\* the least of a set of numbers that has one
Least(D) == CHOOSE d \in D : \A e \in D : d <= e

\* C10: add_parity_bit() on a code of length L returns a code of as many
\* codewords, of length L+1, where the Hamming distance of every two codewords
\* is even; its minimum distance is the minimum distance of the code if that is
\* even and one more if that is odd (codes of two codewords or more: the others
\* have no pair to take a distance of).
C10_ParityBit ==
  call.op = "add_parity_bit" =>
    /\ call.status = "returned"
    /\ out.length = length + 1
    /\ \A w \in out.codewords : w \in Words(length + 1)
    /\ Cardinality(out.codewords) = Cardinality(codewords)
    /\ \A d \in Distances(out.codewords) : d % 2 = 0
    /\ Cardinality(codewords) >= 2 =>
         Least(Distances(out.codewords)) =
           (IF Least(Distances(codewords)) % 2 = 0
            THEN Least(Distances(codewords))
            ELSE Least(Distances(codewords)) + 1)

\* C10 witness: a parity bit was added to a code of three codewords or more
\* whose minimum distance is odd
C10_Witness ==
  /\ call.op = "add_parity_bit"
  /\ call.status = "returned"
  /\ Cardinality(codewords) >= 3
  /\ Least(Distances(codewords)) % 2 = 1
  /\ Least(Distances(out.codewords)) = Least(Distances(codewords)) + 1

\* the elements of a sequence
Elements(seq) == {seq[i] : i \in 1..Len(seq)}

\* the greatest of a set of numbers that has one
Greatest(D) == CHOOSE d \in D : \A e \in D : d >= e

\* C11: invert() on a code of length L returns a code of the same length and
\* size whose bit-sum histogram is {(L-w, n)} for the (w, n) of the code's
\* histogram, whose total bit sum is size*L minus the code's total bit sum, and
\* whose find_Hamming_distance_range() is the code's.
C11_Invert ==
  call.op = "invert" =>
    /\ call.status = "returned"
    /\ out.length = length
    /\ size_of(out) = size_of(C)
    /\ Elements(find_bit_sum_counts(out)) =
         {<<length - h[1], h[2]>> : h \in Elements(find_bit_sum_counts(C))}
    /\ \A w \in 0..length :
         Cardinality({cw \in out.codewords : weight(cw) = length - w}) =
           Cardinality({cw \in codewords : weight(cw) = w})
    /\ total_bit_sum(out) = size_of(C) * length - total_bit_sum(C)
    /\ find_Hamming_distance_range(out) = find_Hamming_distance_range(C)

\* C11 witness: the inverse of a code of three codewords or more, of two
\* weights or more, that is another code
C11_Witness ==
  /\ call.op = "invert"
  /\ call.status = "returned"
  /\ Cardinality(codewords) >= 3
  /\ Len(find_bit_sum_counts(C)) >= 2
  /\ out.codewords # codewords

\* C12: find_Hamming_distance_range() returns (None, None) for a code of no
\* member or one member, and the least and the greatest Hamming distance over
\* the pairs of members for a code of two members or more.
C12_DistanceRange ==
  call.op = "find_Hamming_distance_range" =>
    IF Cardinality(codewords) <= 1
    THEN out = Range(TRUE, 0, 0)
    ELSE out = Range(FALSE, Least(Distances(codewords)), Greatest(Distances(codewords)))

\* C13: choose_codewords_by_bit_sum(low, high) returns exactly the members c
\* with low <= weight(c) <= high, high = -1 standing for no upper bound, for
\* every code, the empty code included; a range that holds no weight gives the
\* empty set and no error.
C13_ChooseByBitSum ==
  call.op = "choose_codewords_by_bit_sum" =>
    /\ call.status = "returned"
    /\ out = {c \in codewords :
                /\ call.val[1] <= weight(c)
                /\ call.val[2] = -1 \/ weight(c) <= call.val[2]}

\* C14: give_N_codewords_random(N) with 0 <= N <= size returns, whatever the
\* random choice, a set of exactly N codewords, all of them members of the
\* code; with N > size it raises BinaryCodeError.  The code stays as it was.
C14_RandomSample ==
  (call.op = "give_N_codewords_random" /\ call.val >= 0) =>
    /\ C = before
    /\ IF call.val <= Cardinality(codewords)
       THEN /\ call.status = "returned"
            /\ out \subseteq codewords
            /\ Cardinality(out) = call.val
       ELSE call.status = "BinaryCodeError"

\* C14 witness: two codewords given out of a code of three or more
C14_Witness ==
  /\ call.op = "give_N_codewords_random"
  /\ call.status = "returned"
  /\ call.val = 2
  /\ Cardinality(out) = 2
  /\ Cardinality(codewords) >= 3

\* the weights of the members of a set of codewords
Weights(S) == {weight(c) : c \in S}

\* the weight of the last bucket needed to cover N codewords of S: from the
\* low end, the least weight present with N members or more at or under it;
\* from the high end, the greatest weight present with N or more at or over it
LastBucket(S, N, take_high) ==
  IF take_high
  THEN Greatest({w \in Weights(S) : Cardinality({c \in S : weight(c) >= w}) >= N})
  ELSE Least({w \in Weights(S) : Cardinality({c \in S : weight(c) <= w}) >= N})

\* the last call was give_N_codewords_by_bit_sum(N, take_high) with N >= 0
ByBitSumCall == call.op = "give_N_codewords_by_bit_sum" /\ call.val[1] >= 0

Changed(c, c2, from) == {i \in 1..Len(c) : c[i] = from /\ c2[i] = 1 - from}

\* c2 is within the budget of c: an int n allows n differing positions, a pair
\* (a, b) allows a positions going 1->0 and b positions going 0->1, counted by
\* bit_change_count and again position by position
Within(c, c2, budget) ==
  IF IsInt(budget) THEN Hamming_distance(c, c2).value <= budget[1] /\ Distance(c, c2) <= budget[1]
  ELSE /\ bit_change_count(c, c2).value[2] <= budget[1]
       /\ bit_change_count(c, c2).value[1] <= budget[2]
       /\ Cardinality(Changed(c, c2, 1)) <= budget[1]
       /\ Cardinality(Changed(c, c2, 0)) <= budget[2]

\* C16: expand_by_all_mutations(S, budget) is exactly the set of the codewords
\* within the budget of some member of S: Hamming distance at most n for an int
\* n; at most a positions 1->0 and at most b positions 0->1 for a pair (a, b).
\* S is a subset of it.
C16_Expansion ==
  call.op = "expand_by_all_mutations" =>
    /\ out = {c2 \in Words(length) : \E c \in codewords : Within(c, c2, call.val)}
    /\ codewords \subseteq out

\* C16 witness: two codewords or more expanded by the pair (1, 1) into a set
\* that has a codeword with one bit gone 1->0 and another gone 0->1, and is
\* not every bit-string
C16_Witness ==
  /\ call.op = "expand_by_all_mutations"
  /\ call.val = <<1, 1>>
  /\ Cardinality(codewords) >= 2
  /\ out # Words(length)
  /\ \E c \in codewords, c2 \in out :
       Cardinality(Changed(c, c2, 1)) = 1 /\ Cardinality(Changed(c, c2, 0)) = 1

\* C17: expand_by_all_mutations_dict(S, budget) has the codewords of
\* expand_by_all_mutations(S, budget) as its keys, and under each key c2 the set
\* of the members c of S with c2 in expand_by_all_mutations({c}, budget), which
\* is never empty.
C17_ExpansionDict ==
  call.op = "expand_by_all_mutations_dict" =>
    /\ DOMAIN out = expand_by_all_mutations(codewords, call.val)
    /\ \A c2 \in DOMAIN out :
         /\ out[c2] = {c \in codewords : c2 \in expand_by_all_mutations({c}, call.val)}
         /\ out[c2] = {c \in codewords : Within(c, c2, call.val)}
         /\ out[c2] # {}

\* C17 witness: some key is filed under two members and another under one
C17_Witness ==
  /\ call.op = "expand_by_all_mutations_dict"
  /\ \E c2 \in DOMAIN out : Cardinality(out[c2]) >= 2
  /\ \E c2 \in DOMAIN out : Cardinality(out[c2]) = 1

\* A|B, bit by bit
Clonality(A, B) == [i \in 1..Len(A) |-> IF A[i] = 1 \/ B[i] = 1 THEN 1 ELSE 0]

\* the members that A|B is within the allowed changes of
ConflictsWith(S, A, B, budget) == {X \in S : Within(X, Clonality(A, B), budget)}

\* the members credited for the pair A, B
Credited(S, A, B, budget, count_self_conflict) ==
  IF ConflictsWith(S, A, B, budget) \ {A, B} # {}
  THEN {A, B} \cup ConflictsWith(S, A, B, budget)
  ELSE IF ConflictsWith(S, A, B, budget) # {} /\ count_self_conflict THEN {A, B}
  ELSE {}

\* the credits of a member over all the unordered pairs of members
Credits(S, w, budget, count_self_conflict) ==
  Cardinality({p \in SUBSET S :
                 /\ Cardinality(p) = 2
                 /\ \E A, B \in p : A # B /\ w \in Credited(S, A, B, budget, count_self_conflict)})

\* the all-zero codeword of the code
AllZero == AllBits(length, 0)

\* C18: clonality_count_conflicts credits per unordered pair {A,B} of members,
\* with M the members that A|B is within the allowed changes of: A, B and
\* every member of M get one credit each if M has a codeword other than A and
\* B; A and B get one each if M is not empty, lies in {A,B} and
\* count_self_conflict is set; nobody otherwise.  The count of a codeword is the
\* sum of its credits and the mapping returned groups the members by count.
C18_ConflictCredits ==
  call.op = "clonality_count_conflicts" =>
    /\ call.status = "returned"
    /\ codewords = (IF call.val.remove_all_zero_codeword
                    THEN before.codewords \ {AllZero} ELSE before.codewords)
    /\ DOMAIN out = {Credits(codewords, w, call.val.N_allowed_changes,
                             call.val.count_self_conflict) : w \in codewords}
    /\ \A n \in DOMAIN out :
         out[n] = {w \in codewords :
                     Credits(codewords, w, call.val.N_allowed_changes,
                             call.val.count_self_conflict) = n}

\* C18 witness: with changes allowed, some pair conflicts with two other
\* members, and the members fall into two counts or more
C18_Witness ==
  /\ call.op = "clonality_count_conflicts"
  /\ ~zero_changes(call.val.N_allowed_changes)
  /\ Cardinality(DOMAIN out) >= 2
  /\ \E A, B \in codewords :
       /\ A # B
       /\ Cardinality(ConflictsWith(codewords, A, B, call.val.N_allowed_changes) \ {A, B}) >= 2

\* C19: the set clonality_really_naive_reduction returns (the members of
\* conflict count 0, or the empty set), taken as a code of its own and analysed
\* with the same allowed changes and the same count_self_conflict, has no
\* conflict: clonality_conflict_check returns False.
C19_CountZeroConflictFree ==
  call.op = "clonality_really_naive_reduction" =>
    /\ call.status = "returned"
    /\ out \subseteq codewords
    /\ \A remove_all_zero_codeword \in BOOLEAN :
         clonality_conflict_check(Code(length, out), call.val.N_allowed_changes,
                                  call.val.count_self_conflict,
                                  remove_all_zero_codeword).ret = FALSE
    /\ \A w \in out : Credits(out, w, call.val.N_allowed_changes,
                              call.val.count_self_conflict) = 0

\* C19 witness: a codeword is returned and two others or more are not, with
\* changes allowed and self-conflicts counted
C19_Witness ==
  /\ call.op = "clonality_really_naive_reduction"
  /\ call.val.count_self_conflict
  /\ ~zero_changes(call.val.N_allowed_changes)
  /\ Cardinality(out) >= 1
  /\ Cardinality(codewords \ out) >= 2

\* C20: with count_self_conflict set, no change allowed and the all-zero
\* codeword left in the code, every other member has a conflict count of 1 or
\* more, the count of the all-zero codeword is the number of the other members,
\* and a code of two members or more has no member of count 0.
C20_AllZeroConflicts ==
  (/\ call.op = "clonality_count_conflicts"
   /\ call.val.count_self_conflict
   /\ zero_changes(call.val.N_allowed_changes)
   /\ AllZero \in codewords) =>
    /\ \A n \in DOMAIN out : \A w \in out[n] :
         IF w = AllZero THEN n = Cardinality(codewords) - 1 ELSE n >= 1
    /\ UNION {out[n] : n \in DOMAIN out} = codewords
    /\ Cardinality(codewords) >= 2 => 0 \notin DOMAIN out

\* C20 witness: the all-zero codeword in a code of four members, three
\* conflicts counted for it
C20_Witness ==
  /\ call.op = "clonality_count_conflicts"
  /\ call.val.count_self_conflict
  /\ call.val.N_allowed_changes = <<0, 0>>
  /\ Cardinality(codewords) = 4
  /\ 3 \in DOMAIN out
  /\ AllZero \in out[3]

\* the bits of a constructor argument before any padding: the digits of a
\* str, the values of a list, the digits of bin(val) for an int
NaturalBits(val) ==
  IF val.type = "int" THEN UintBits(val.n, BinDigits(val.n)) ELSE val.bits

\* C21: Binary_codeword(val, length, check_length) with a length given: with
\* check_length it returns exactly when the natural length of val is the
\* length and raises BinaryCodeError otherwise; without it, a val of fewer
\* bits is padded with zeros on the left to the length, its bits kept, and a
\* val of more bits raises BinaryCodeError; str and int values alike.
C21_LengthCheckAndPadding ==
  (call.op = "Binary_codeword" /\ call.val.length # -1) =>
    LET natural == NaturalBits(call.val.val)
        len == call.val.length
    IN  IF call.val.check_length
        THEN /\ call.status = "returned" <=> Len(natural) = len
             /\ call.status # "returned" => call.status = "BinaryCodeError"
             /\ call.status = "returned" => out = natural
        ELSE IF Len(natural) <= len
             THEN /\ call.status = "returned"
                  /\ out = [i \in 1..(len - Len(natural)) |-> 0] \o natural
             ELSE call.status = "BinaryCodeError"

\* a str of digits only
Digits(text) == \A i \in 1..Len(text) : text[i] \in {"0", "1"}

\* C22: a codeword is its length and its bits: Binary_codeword(s).string() is s
\* for every bit-string s, Binary_codeword(Binary_codeword(s)) equals
\* Binary_codeword(s), and two codewords are equal exactly when they have the
\* same length and the same bits, with equal hashes then; '01' and '001' are
\* not equal.
C22_CodewordIdentity ==
  /\ call.op = "string" =>
       /\ Digits(call.val.text) => out.string = call.val.text
       /\ out.string = [i \in 1..Len(call.val.codeword) |->
                          IF call.val.codeword[i] = 1 THEN "1" ELSE "0"]
       /\ out.copy.error = ""
       /\ codeword_cmp(out.copy.codeword, call.val.codeword) = 0
       /\ out.copy.codeword = call.val.codeword
  /\ call.op = "__cmp__" =>
       /\ out.cmp = 0 <=>
            /\ Len(call.val.self) = Len(call.val.other)
            /\ \A i \in 1..Len(call.val.self) : call.val.self[i] = call.val.other[i]
       /\ out.cmp = 0 => out.hashes[1] = out.hashes[2]
       /\ (call.val.self = <<0, 1>> /\ call.val.other = <<0, 0, 1>>) => out.cmp # 0

\* C22 witness: the codewords '01' and '001' have been compared and found
\* unequal
C22_Witness ==
  /\ call.op = "__cmp__"
  /\ call.val.self = <<0, 1>>
  /\ call.val.other = <<0, 0, 1>>
  /\ out.cmp # 0

\* C23: Hamming_distance(a, b) of two codewords of one length is the number
\* of positions where they differ, the weight of a XOR b: 0 for a == b, the
\* same for (b, a); for two lengths the call raises an error and returns no
\* number.
C23_HammingDistance ==
  call.op = "Hamming_distance" =>
    LET a == call.val.val1
        b == call.val.val2
    IN  IF Len(a) = Len(b)
        THEN /\ call.status = "returned"
             /\ out = Cardinality({i \in 1..Len(a) : a[i] # b[i]})
             /\ out = weight(xor(a, b).codeword)
             /\ a = b => out = 0
             /\ Hamming_distance(b, a).error = ""
             /\ out = Hamming_distance(b, a).value
        ELSE /\ call.status # "returned"
             /\ Hamming_distance(b, a).error # ""

\* C23 witness: the distance of 101 and 010 is 3
C23_Witness ==
  /\ call.op = "Hamming_distance"
  /\ call.status = "returned"
  /\ call.val.val1 = <<1, 0, 1>>
  /\ call.val.val2 = <<0, 1, 0>>
  /\ out = 3

\* the largest set of nodes of g in which every node has k neighbours or more
\* in the set: the union of all such sets
Core(g, k) ==
  UNION {S \in SUBSET g.nodes : \A n \in S : Cardinality(g.neighbors[n] \cap S) >= k}

\* the last call was remove_nodes_by_degree(min_degree, if_repeat=True) and it
\* has returned
RepeatedRemovalReturned == Returned("remove_nodes_by_degree") /\ last.keep_neighbor_record

\* C24: when remove_nodes_by_degree(min_degree, if_repeat=True) returns, every
\* node left has degree min_degree or more, and the nodes left are the largest
\* subset of the nodes of before in which every node has min_degree neighbours
\* or more inside the subset, whatever order the nodes were visited in.
C24_DegreeFixpoint ==
  RepeatedRemovalReturned =>
    /\ \A n \in nodes : degree[n] >= last.min
    /\ \A n \in nodes : Cardinality(neighbors[n] \cap nodes) >= last.min
    /\ nodes = Core(pre, last.min)

\* C24 witness: on a graph of four nodes, a node that had min_degree
\* neighbours or more was removed after it lost neighbours to earlier removals
C24_Witness ==
  /\ RepeatedRemovalReturned
  /\ Cardinality(pre.nodes) = 4
  /\ last.min >= 2
  /\ \E n \in pre.nodes \ nodes : pre.degree[n] >= last.min

\* a reduce_to_clique call is running
Running == last.op = "reduce_to_clique" /\ last.status = "running"

\* C25: every reduce_to_clique(min_size) call returns in the end, for every
\* graph, min_size and order of visiting the nodes; it never raises
\* GraphNodeError, and each recursive call is entered on a graph of fewer
\* nodes than the graph its caller has.
C25_Terminates ==
  /\ Running ~> Returned("reduce_to_clique")
  /\ [](last.op = "reduce_to_clique" => last.status # "GraphNodeError")
  /\ [][(Len(stack) >= 1 /\ Len(stack') = Len(stack) + 1)
          => Cardinality(nodes') < Cardinality(nodes)]_vars

\* C25 witness: a call on a graph of three nodes has returned after it split
\* the nodes into required and unknown ones and went into the recursion
C25_Witness ==
  /\ Returned("reduce_to_clique")
  /\ pre.size = 3
  /\ required_nodes # {}
  /\ nodes # pre.nodes

\* the recursive call made after a node was detached is back in its caller
BackInCaller == ~Idle /\ Top.pc = "after"

\* C28: in reduce_to_clique the recursive call made after detaching an unknown
\* node always comes back with the graph a clique for is_clique (a cleared
\* graph of no nodes counts as one), so the caller returns at once with the
\* graph as the recursive call left it: add_node_with_neighbors is not
\* executed and no second unknown node is detached at any level.
C28_NoReattach ==
  /\ [](BackInCaller => is_clique(G))
  /\ [][BackInCaller => (stack' = Pop /\ G' = G)]_vars
  /\ [][(~Idle /\ Top.pc = "for")
          => (/\ Top.unknown_nodes # {}
              /\ Len(stack') = Len(stack) + 1
              /\ stack'[Len(stack)].pc = "after")]_vars

\* C28 witness: the recursive call is back with the graph cleared, and the
\* caller has unknown nodes that it has not tried
C28_Witness ==
  /\ BackInCaller
  /\ nodes = {}
  /\ Top.unknown_nodes # {}
  /\ pre.size = 4

QueryOps ==
  {"add_parity_bit", "invert", "choose_codewords_by_bit_sum",
   "give_N_codewords_random", "give_N_codewords_by_bit_sum",
   "find_Hamming_distance_range", "find_bit_sum_counts", "total_bit_sum"}

C29_SpecialCaseIsStandardCase ==
  (call.op = "clonality_count_conflicts_details" /\ zero_changes(call.val.N_allowed_changes)) =>
    /\ call.status = "returned"
    /\ out = standard_case_conflicts(codewords, call.val.N_allowed_changes,
                                     call.val.count_self_conflict)

\* C29 witness: a zero budget, and among the conflict details a self-conflict
\* and a conflict with a third codeword
C29_Witness ==
  /\ call.op = "clonality_count_conflicts_details"
  /\ zero_changes(call.val.N_allowed_changes)
  /\ \E d, e \in out.all_conflict_details : d[4] = "self" /\ e[4] = ""
  /\ Cardinality(DOMAIN out.conflict_count_to_codeword_set) >= 2

\* C30: clonality_count_conflicts, clonality_conflict_check and
\* clonality_really_naive_reduction leave the length alone; called with
\* remove_all_zero_codeword False they leave the codewords as they were, and
\* called with it True the only change is that the all-zero codeword is gone.
\* The removal stays: a later analysis of the same object made with
\* remove_all_zero_codeword False works on the code without the all-zero
\* codeword, and returns what it returns for that code.
C30_AllZeroRemovalOnly ==
  call.op \in ClonalityOps =>
    /\ call.status = "returned"
    /\ length = before.length
    /\ call.ret = "None" =>
         codewords = (IF call.val.remove_all_zero_codeword
                      THEN before.codewords \ {AllZero} ELSE before.codewords)
    /\ call.ret = "after no removal" =>
         codewords = (IF call.val.remove_all_zero_codeword
                      THEN before.codewords \ {AllZero} ELSE before.codewords)
    /\ call.ret = "after removal" =>
         /\ codewords = before.codewords \ {AllZero}
         /\ out = clonality_call(call.op, Code(length, before.codewords \ {AllZero}),
                                 call.val.N_allowed_changes,
                                 call.val.count_self_conflict, FALSE).ret

\* C30 witness: the code was made with the all-zero codeword, a first analysis
\* removed it, and a later check made with remove_all_zero_codeword False and
\* count_self_conflict True finds no conflict where the code as it was made
\* has one
C30_Witness ==
  /\ call.op = "clonality_conflict_check"
  /\ call.ret = "after removal"
  /\ ~call.val.remove_all_zero_codeword
  /\ call.val.count_self_conflict
  /\ AllZero \in before.codewords
  /\ out = FALSE
  /\ clonality_conflict_check(before, call.val.N_allowed_changes, TRUE, FALSE).ret

=============================================================================
